---- MODULE Spec2Model ----
(***************************************************************************)
(* A model of the notu-api backend: the authentication routes, the         *)
(* friend-request lifecycle and the notes resource, over the two document  *)
(* collections (User, Note) and the external image store.                  *)
(*                                                                         *)
(* A request handler is an async function: it runs without interruption    *)
(* from one await to the next, and between two awaits the handlers of      *)
(* other requests may run.  Each action of the model is one awaited        *)
(* operation of a handler (a query, a save, an upload, a deletion in the   *)
(* image store) taking effect, followed by the handler's code up to its    *)
(* next await or to its response; the first action of a handler also       *)
(* covers its code before the first await.  What a handler holds between   *)
(* two awaits (the documents it has read, the tokens it has signed) is in  *)
(* running.                                                                *)
(*                                                                         *)
(* Data abstractions: document ids are the naturals 1, 2, ... in order of  *)
(* insertion (never reused); strings are drawn from small named sets; the  *)
(* name, avatar and bio of a user and the colour and date of a note are    *)
(* not represented, and a listing is the set of the note ids it returns    *)
(* (its sort order is not represented).  A stored password is the          *)
(* password hashed, and comparePassword is equality with it.               *)
(***************************************************************************)
EXTENDS Integers, Sequences, FiniteSets, TLC

VARIABLES
  users,      \* the User collection: users[i] is the document with _id i
  notes,      \* the Note collection: a function from the _ids present to documents
  noteSeq,    \* number of Note documents ever created (the next _id is noteSeq + 1)
  cloud,      \* the image store: the publicIds currently stored
  cloudSeq,   \* number of images ever uploaded
  issued,     \* issued[n] is the user id the n-th token pair was signed for (0: a user never stored)
  expired,    \* the serial numbers of the refresh tokens whose expiry has passed
  resp,       \* the request answered by the last step and its response, if it answered one
  published,  \* history: the contents some public note of their author has carried
  trashed,    \* history: the note the last request moved to the trash, as it was before
  running,    \* the handlers in progress: where each stands and what it holds
  started     \* number of friend-request handlers started, counted up to MaxRequests

vars == <<users, notes, noteSeq, cloud, cloudSeq, issued, expired, resp,
          published, trashed, running, started>>

(***************************************************************************)
(* Bounds of the model.                                                    *)
(***************************************************************************)
MaxUsers == 2
MaxTokens == 3
MaxNotes == 1
MaxSharedNotes == 2
MaxUploads == 2
MaxHandlers == 2
MaxRequests == 3

\* the user ids a request can name: an id is of no user before the user registers
UserIds == 1..MaxUsers

\* the note ids a request can name: an id is of no note before the note is
\* created and after it is permanently deleted
NoteIds == 1..MaxNotes
SharedNoteIds == 1..MaxSharedNotes

\* the handlers that can be in progress at once
Handlers == 1..MaxHandlers

(***************************************************************************)
(* Strings of the requests.                                                *)
(***************************************************************************)
Emails == {"a@x", "A@x", "b@x"}
Passwords == {"", "12345", "secret1"}
Names == {"n"}

\* String.prototype.toLowerCase on the e-mail strings of the model
toLowerCase(s) ==
  CASE s = "A@x" -> "a@x"
    [] OTHER -> s

\* password.length
PasswordLength(p) ==
  CASE p = "" -> 0
    [] p = "12345" -> 5
    [] OTHER -> 7

MinPasswordLength == 6

(***************************************************************************)
(* Tokens.  A token is what the JWT decodes to plus a serial number that   *)
(* tells two tokens issued for the same user apart.                        *)
(***************************************************************************)
NoToken == [uid |-> 0, n |-> 0, type |-> "none"]
GarbageToken == [uid |-> 0, n |-> 0, type |-> "garbage"]

\* generateRefreshToken(userId), as the n-th token pair issued
generateRefreshToken(uid, n) == [uid |-> uid, n |-> n, type |-> "refresh"]

\* generateAccessToken(userId), as the n-th token pair issued
generateAccessToken(uid, n) == [uid |-> uid, n |-> n, type |-> "access"]

\* verifyRefreshToken(token) throws: not a JWT signed with the refresh secret,
\* or past its expiry (config.jwt.refreshExpiry)
verifyRefreshTokenThrows(t) ==
  \/ t.type \notin {"refresh", "access"}
  \/ t.type = "access"
  \/ t.n \in expired

\* the tokens a client can present: nothing, garbage, or any token a response
\* has carried (a token signed for a user whose insertion failed is in none)
PresentableTokens ==
  {NoToken, GarbageToken}
    \cup {generateRefreshToken(issued[n], n) : n \in {m \in DOMAIN issued : issued[m] # 0}}
    \cup {generateAccessToken(issued[n], n) : n \in {m \in DOMAIN issued : issued[m] # 0}}

(***************************************************************************)
(* Arrays of ids.                                                          *)
(***************************************************************************)
\* arr.some((f) => f.toString() === x)
Some(arr, x) == \E i \in DOMAIN arr : arr[i] = x

\* arr.filter((f) => f.toString() !== x)
Filter(arr, x) == SelectSeq(arr, LAMBDA f : f # x)

\* the members of an array
Members(arr) == {arr[i] : i \in DOMAIN arr}

(***************************************************************************)
(* The User collection.                                                    *)
(***************************************************************************)
ExistingUsers == DOMAIN users

\* new User({ email, password, ... }) with the schema defaults
NewUser(email, password, googleId, authProvider) ==
  [email |-> email, password |-> password, googleId |-> googleId,
   authProvider |-> authProvider, refreshToken |-> NoToken, isPrivate |-> FALSE,
   friends |-> <<>>, friendRequests |-> <<>>, sentFriendRequests |-> <<>>]

\* User.findOne({ email }): the _id of the document found, 0 for null
FindOneByEmail(email) ==
  IF \E i \in ExistingUsers : users[i].email = email
  THEN CHOOSE i \in ExistingUsers : users[i].email = email
  ELSE 0

\* the unique index on email: saving a new document with a stored email throws
DuplicateKey(email) == \E i \in ExistingUsers : users[i].email = email

(***************************************************************************)
(* Requests and responses.                                                 *)
(***************************************************************************)
Reply(op, user, arg, status, error) ==
  [op |-> op, user |-> user, arg |-> arg, status |-> status, error |-> error,
   ids |-> {}, flag |-> FALSE, count |-> 0, token |-> NoToken,
   email |-> "", password |-> "", name |-> "", archived |-> "", deleted |-> "",
   statuses |-> {}]

\* the step answered no request
NoResponse == Reply("none", 0, 0, 0, "")

UsersUnchanged == UNCHANGED <<users, issued>>
NotesUnchanged == UNCHANGED <<notes, noteSeq, cloud, cloudSeq>>
NoTrashed == [id |-> 0]

\* a step that publishes nothing and is no part of a soft delete or a restore
HistoryUnchanged == published' = published /\ trashed' = NoTrashed

(***************************************************************************)
(* Handlers in progress.  pc names the await the handler stands at, op the *)
(* route, u the authenticated user and t the id in the path; body is what  *)
(* the request carried, cur and oth the documents the handler has read     *)
(* (with the changes it has made to them), n the serial of the token pair  *)
(* it has signed, images its uploadedImages so far and todo the publicIds  *)
(* it still has to delete.  curSave and othSave tell how the two saves of  *)
(* a friend-request handler stand, and curStale and othStale that the      *)
(* stored version (__v) of a document has moved since the handler read it. *)
(***************************************************************************)
\* a document not read yet, and a request without a body
NoDoc == [doc |-> "unread"]
NoBody == [doc |-> "none"]

Idle ==
  [pc |-> "idle", op |-> "none", u |-> 0, t |-> 0, body |-> NoBody,
   cur |-> NoDoc, oth |-> NoDoc, curSave |-> "none", othSave |-> "none",
   curStale |-> FALSE, othStale |-> FALSE, n |-> 0, images |-> <<>>, todo |-> <<>>]

\* no handler is between two awaits
Alone == \A h \in Handlers : running[h].pc = "idle"

\* handler h goes on holding r
Goes(h, r) == running' = [running EXCEPT ![h] = r]

\* handler h has answered or given up
Ends(h) == running' = [running EXCEPT ![h] = Idle]

(***************************************************************************)
(* Authentication routes.                                                  *)
(***************************************************************************)
\* the response of POST /register to a body
RegisterReply(body, status, error) ==
  [Reply("register", 0, 0, status, error)
     EXCEPT !.email = body.email, !.password = body.password, !.name = body.name]

\* Register as it would be without the lookup of an existing user
RegisterWithoutLookup(h, email, password, name) ==
  LET lower == toLowerCase(email)
      body == [email |-> email, password |-> password, name |-> name]
  IN
  /\ running[h].pc = "idle"
  /\ IF email = "" \/ password = "" \/ name = ""
     THEN /\ resp' = RegisterReply(body, 400, "All fields are required")
          /\ UNCHANGED <<issued, running>>
     ELSE IF PasswordLength(password) < MinPasswordLength
     THEN /\ resp' = RegisterReply(body, 400, "Password must be at least 6 characters")
          /\ UNCHANGED <<issued, running>>
     ELSE /\ issued' = Append(issued, 0)
          /\ Goes(h, [Idle EXCEPT !.pc = "save", !.op = "register", !.body = body,
                                  !.cur = NewUser(lower, password, "", "email"),
                                  !.n = Len(issued) + 1])
          /\ resp' = NoResponse
  /\ UNCHANGED <<users, expired, started>>
  /\ NotesUnchanged
  /\ HistoryUnchanged

\* POST /register: the field checks, User.findOne, and the new document with
\* its tokens
Register(h, email, password, name) ==
  LET lower == toLowerCase(email)
      body == [email |-> email, password |-> password, name |-> name]
  IN
  /\ running[h].pc = "idle"
  /\ IF email = "" \/ password = "" \/ name = ""
     THEN /\ resp' = RegisterReply(body, 400, "All fields are required")
          /\ UNCHANGED <<issued, running>>
     ELSE IF PasswordLength(password) < MinPasswordLength
     THEN /\ resp' = RegisterReply(body, 400, "Password must be at least 6 characters")
          /\ UNCHANGED <<issued, running>>
     ELSE IF FindOneByEmail(lower) # 0
     THEN /\ resp' = RegisterReply(body, 400, "Email already registered")
          /\ UNCHANGED <<issued, running>>
     ELSE /\ issued' = Append(issued, 0)
          /\ Goes(h, [Idle EXCEPT !.pc = "save", !.op = "register", !.body = body,
                                  !.cur = NewUser(lower, password, "", "email"),
                                  !.n = Len(issued) + 1])
          /\ resp' = NoResponse
  /\ UNCHANGED <<users, expired, started>>
  /\ NotesUnchanged
  /\ HistoryUnchanged

\* POST /register: user.save() inserts the document, or the unique index on
\* email rejects it and the catch block answers
RegisterSave(h) ==
  LET r == running[h]
      id == Len(users) + 1
      token == generateRefreshToken(id, r.n)
  IN
  /\ r.op = "register" /\ r.pc = "save"
  /\ IF DuplicateKey(r.cur.email)
     THEN /\ resp' = RegisterReply(r.body, 500, "Failed to register")
          /\ UsersUnchanged
     ELSE /\ users' = Append(users, [r.cur EXCEPT !.refreshToken = token])
          /\ issued' = [issued EXCEPT ![r.n] = id]
          /\ resp' = [RegisterReply(r.body, 201, "") EXCEPT !.arg = id, !.token = token]
  /\ Ends(h)
  /\ UNCHANGED <<expired, started>>
  /\ NotesUnchanged
  /\ HistoryUnchanged

\* POST /login: the field check and User.findOne
Login(h, email, password) ==
  LET id == FindOneByEmail(toLowerCase(email))
  IN
  /\ running[h].pc = "idle"
  /\ IF email = "" \/ password = ""
     THEN /\ resp' = Reply("login", 0, 0, 400, "Email and password are required")
          /\ UNCHANGED running
     ELSE IF id = 0
     THEN /\ resp' = Reply("login", 0, 0, 401, "Invalid email or password")
          /\ UNCHANGED running
     ELSE /\ Goes(h, [Idle EXCEPT !.pc = "compare", !.op = "login", !.t = id,
                                  !.body = [email |-> email, password |-> password],
                                  !.cur = users[id]])
          /\ resp' = NoResponse
  /\ UNCHANGED <<users, issued, expired, started>>
  /\ NotesUnchanged
  /\ HistoryUnchanged

\* POST /login: user.comparePassword and the tokens
LoginCompare(h) ==
  LET r == running[h]
  IN
  /\ r.op = "login" /\ r.pc = "compare"
  /\ IF r.cur.password = ""
     THEN \* bcrypt.compare against an undefined hash throws
          /\ resp' = Reply("login", 0, r.t, 500, "Failed to login")
          /\ Ends(h)
          /\ UNCHANGED issued
     ELSE IF r.cur.password # r.body.password
     THEN /\ resp' = Reply("login", 0, r.t, 401, "Invalid email or password")
          /\ Ends(h)
          /\ UNCHANGED issued
     ELSE /\ issued' = Append(issued, r.t)
          /\ Goes(h, [r EXCEPT !.pc = "save", !.n = Len(issued) + 1])
          /\ resp' = NoResponse
  /\ UNCHANGED <<users, expired, started>>
  /\ NotesUnchanged
  /\ HistoryUnchanged

\* POST /login: user.save() sets the refresh token
LoginSave(h) ==
  LET r == running[h]
      token == generateRefreshToken(r.t, r.n)
  IN
  /\ r.op = "login" /\ r.pc = "save"
  /\ users' = [users EXCEPT ![r.t].refreshToken = token]
  /\ resp' = [Reply("login", 0, r.t, 200, "") EXCEPT !.token = token]
  /\ Ends(h)
  /\ UNCHANGED <<issued, expired, started>>
  /\ NotesUnchanged
  /\ HistoryUnchanged

\* the response of POST /refresh to a token
RefreshReply(refreshToken, arg, status, error) ==
  [Reply("refresh", 0, arg, status, error) EXCEPT !.token = refreshToken]

\* POST /refresh: the checks of the token, User.findById, the comparison with
\* the stored token, and the new tokens
Refresh(h, refreshToken) ==
  LET id == refreshToken.uid
  IN
  /\ running[h].pc = "idle"
  /\ IF refreshToken = NoToken
     THEN /\ resp' = RefreshReply(refreshToken, 0, 400, "Refresh token required")
          /\ UNCHANGED <<issued, running>>
     ELSE IF verifyRefreshTokenThrows(refreshToken)
     THEN /\ resp' = RefreshReply(refreshToken, 0, 401, "Invalid or expired refresh token")
          /\ UNCHANGED <<issued, running>>
     ELSE IF refreshToken.type # "refresh"
     THEN /\ resp' = RefreshReply(refreshToken, 0, 401, "Invalid token type")
          /\ UNCHANGED <<issued, running>>
     ELSE IF id \notin ExistingUsers \/ users[id].refreshToken # refreshToken
     THEN /\ resp' = RefreshReply(refreshToken, id, 401, "Invalid refresh token")
          /\ UNCHANGED <<issued, running>>
     ELSE /\ issued' = Append(issued, id)
          /\ Goes(h, [Idle EXCEPT !.pc = "save", !.op = "refresh", !.t = id,
                                  !.body = [refreshToken |-> refreshToken],
                                  !.cur = users[id], !.n = Len(issued) + 1])
          /\ resp' = NoResponse
  /\ UNCHANGED <<users, expired, started>>
  /\ NotesUnchanged
  /\ HistoryUnchanged

\* POST /refresh: user.save() sets the new refresh token
RefreshSave(h) ==
  LET r == running[h]
  IN
  /\ r.op = "refresh" /\ r.pc = "save"
  /\ users' = [users EXCEPT ![r.t].refreshToken = generateRefreshToken(r.t, r.n)]
  /\ resp' = [RefreshReply(r.body.refreshToken, r.t, 200, "") EXCEPT !.count = r.n]
  /\ Ends(h)
  /\ UNCHANGED <<issued, expired, started>>
  /\ NotesUnchanged
  /\ HistoryUnchanged

\* POST /logout, authenticated as u: User.findById
Logout(h, u) ==
  /\ running[h].pc = "idle"
  /\ IF u \notin ExistingUsers
     THEN /\ resp' = Reply("logout", u, 0, 200, "Logged out successfully")
          /\ UNCHANGED running
     ELSE /\ Goes(h, [Idle EXCEPT !.pc = "save", !.op = "logout", !.u = u,
                                  !.cur = users[u]])
          /\ resp' = NoResponse
  /\ UNCHANGED <<users, issued, expired, started>>
  /\ NotesUnchanged
  /\ HistoryUnchanged

\* POST /logout: user.save() unsets the refresh token the handler read
LogoutSave(h) ==
  LET r == running[h]
  IN
  /\ r.op = "logout" /\ r.pc = "save"
  /\ users' = IF r.cur.refreshToken # NoToken
              THEN [users EXCEPT ![r.u].refreshToken = NoToken]
              ELSE users
  /\ resp' = Reply("logout", r.u, 0, 200, "Logged out successfully")
  /\ Ends(h)
  /\ UNCHANGED <<issued, expired, started>>
  /\ NotesUnchanged
  /\ HistoryUnchanged

\* the response of POST /google to a payload
GoogleReply(body, arg, status, error) ==
  [Reply("google", 0, arg, status, error) EXCEPT !.email = body.email]

\* POST /google with a credential that is missing ("none"), rejected by
\* verifyIdToken ("bad"), or verified with the payload { email, sub }
GoogleSignIn(h, kind, email, googleId) ==
  /\ running[h].pc = "idle"
  /\ IF kind = "none"
     THEN /\ resp' = Reply("google", 0, 0, 400, "Google credential required")
          /\ UNCHANGED running
     ELSE IF kind = "bad"
     THEN /\ resp' = Reply("google", 0, 0, 500, "Failed to authenticate with Google")
          /\ UNCHANGED running
     ELSE IF email = ""
     THEN /\ resp' = Reply("google", 0, 0, 400, "Invalid Google token")
          /\ UNCHANGED running
     ELSE /\ Goes(h, [Idle EXCEPT !.pc = "find", !.op = "google",
                                  !.body = [email |-> email, googleId |-> googleId]])
          /\ resp' = NoResponse
  /\ UNCHANGED <<users, issued, expired, started>>
  /\ NotesUnchanged
  /\ HistoryUnchanged

\* POST /google: User.findOne, the link of the Google id or the new document,
\* and the tokens
GoogleFind(h) ==
  LET r == running[h]
      lower == toLowerCase(r.body.email)
      found == FindOneByEmail(lower)
  IN
  /\ r.op = "google" /\ r.pc = "find"
  /\ issued' = Append(issued, found)
  /\ Goes(h, [r EXCEPT !.pc = "save", !.t = found, !.n = Len(issued) + 1,
                       !.cur = IF found # 0 THEN users[found]
                               ELSE NewUser(lower, "", r.body.googleId, "google")])
  /\ resp' = NoResponse
  /\ UNCHANGED <<users, expired, started>>
  /\ NotesUnchanged
  /\ HistoryUnchanged

\* POST /google: user.save() updates the document found (the Google id and
\* the provider if it had no Google id when read, and the refresh token) or
\* inserts the new one
GoogleSave(h) ==
  LET r == running[h]
      id == IF r.t # 0 THEN r.t ELSE Len(users) + 1
      token == generateRefreshToken(id, r.n)
      linked == r.cur.googleId = ""
  IN
  /\ r.op = "google" /\ r.pc = "save"
  /\ IF r.t # 0
     THEN /\ users' = [users EXCEPT
                         ![id].googleId = IF linked THEN r.body.googleId ELSE @,
                         ![id].authProvider = IF linked THEN "google" ELSE @,
                         ![id].refreshToken = token]
          /\ UNCHANGED issued
          /\ resp' = [GoogleReply(r.body, id, 200, "") EXCEPT !.token = token]
     ELSE IF DuplicateKey(r.cur.email)
     THEN /\ resp' = GoogleReply(r.body, 0, 500, "Failed to authenticate with Google")
          /\ UsersUnchanged
     ELSE /\ users' = Append(users, [r.cur EXCEPT !.refreshToken = token])
          /\ issued' = [issued EXCEPT ![r.n] = id]
          /\ resp' = [GoogleReply(r.body, id, 200, "") EXCEPT !.token = token]
  /\ Ends(h)
  /\ UNCHANGED <<expired, started>>
  /\ NotesUnchanged
  /\ HistoryUnchanged

\* PUT /profile, authenticated as u, with a body that may set isPrivate:
\* User.findById
UpdateProfile(h, u, hasIsPrivate, isPrivate) ==
  /\ running[h].pc = "idle"
  /\ IF u \notin ExistingUsers
     THEN /\ resp' = Reply("profile", u, 0, 404, "User not found")
          /\ UNCHANGED running
     ELSE /\ Goes(h, [Idle EXCEPT !.pc = "save", !.op = "profile", !.u = u,
                                  !.body = [hasIsPrivate |-> hasIsPrivate,
                                            isPrivate |-> isPrivate],
                                  !.cur = users[u]])
          /\ resp' = NoResponse
  /\ UNCHANGED <<users, issued, expired, started>>
  /\ NotesUnchanged
  /\ HistoryUnchanged

\* PUT /profile: user.save() sets isPrivate if the body changed it
UpdateProfileSave(h) ==
  LET r == running[h]
  IN
  /\ r.op = "profile" /\ r.pc = "save"
  /\ users' = IF r.body.hasIsPrivate /\ r.body.isPrivate # r.cur.isPrivate
              THEN [users EXCEPT ![r.u].isPrivate = r.body.isPrivate]
              ELSE users
  /\ resp' = [Reply("profile", r.u, 0, 200, "Profile updated successfully")
                EXCEPT !.flag = IF r.body.hasIsPrivate THEN r.body.isPrivate
                                ELSE r.cur.isPrivate]
  /\ Ends(h)
  /\ UNCHANGED <<issued, expired, started>>
  /\ NotesUnchanged
  /\ HistoryUnchanged

\* GET /me
GetMe(u) ==
  /\ IF u \notin ExistingUsers
     THEN resp' = Reply("me", u, 0, 404, "User not found")
     ELSE resp' = [Reply("me", u, 0, 200, "") EXCEPT !.count = Len(users[u].friends)]
  /\ UNCHANGED <<users, issued, expired, running, started>>
  /\ NotesUnchanged
  /\ HistoryUnchanged

\* time passes: the oldest refresh token still valid reaches its expiry
Expire(n) ==
  /\ n \in DOMAIN issued
  /\ n \notin expired
  /\ \A m \in DOMAIN issued : m < n => m \in expired
  /\ expired' = expired \cup {n}
  /\ resp' = NoResponse
  /\ UNCHANGED <<users, issued, running, started>>
  /\ NotesUnchanged
  /\ HistoryUnchanged

(***************************************************************************)
(* The friend-request lifecycle.  u is the authenticated user (req.userId) *)
(* and t the :userId parameter.  A handler reads the two user documents    *)
(* (Promise.all of two findById, which the database serves one at a time   *)
(* in either order), checks and changes its copies without yielding, and   *)
(* starts the two saves (Promise.all of two save()), which take effect one *)
(* at a time and independently of each other.  A save sends what the       *)
(* handler changed: an array it replaced by a filtered copy is set, under  *)
(* the document version it read, and an element it pushed is pushed onto   *)
(* the stored array; a save that changed nothing writes nothing, but is    *)
(* awaited like the other and can be rejected.                             *)
(***************************************************************************)
FriendOps == {"send", "accept", "decline", "remove"}

\* findById(id): the document, or null
Null == [doc |-> "null"]
FindById(id) == IF id \in ExistingUsers THEN users[id] ELSE Null

\* SetField as it would be if decline left the requester's document alone
SetFieldDeclineOneSided(op, role) ==
  CASE op = "accept" ->
         (IF role = "cur" THEN "friendRequests" ELSE "sentFriendRequests")
    [] op = "decline" -> (IF role = "cur" THEN "friendRequests" ELSE "none")
    [] op = "remove" -> "friends"
    [] OTHER -> "none"

\* SetField as it would be if remove-friend left the other user's document alone
SetFieldRemoveOneSided(op, role) ==
  CASE op \in {"accept", "decline"} ->
         (IF role = "cur" THEN "friendRequests" ELSE "sentFriendRequests")
    [] op = "remove" -> (IF role = "cur" THEN "friends" ELSE "none")
    [] OTHER -> "none"

\* the array the handler replaces by a filtered copy, on its own document
\* ("cur") and on the other user's ("oth")
SetField(op, role) ==
  CASE op \in {"accept", "decline"} ->
         (IF role = "cur" THEN "friendRequests" ELSE "sentFriendRequests")
    [] op = "remove" -> "friends"
    [] OTHER -> "none"

\* the array the handler pushes onto
PushField(op, role) ==
  CASE op = "send" -> (IF role = "cur" THEN "sentFriendRequests" ELSE "friendRequests")
    [] op = "accept" -> "friends"
    [] OTHER -> "none"

\* the document a role of handler r stands for, its copy, and the id filtered or pushed
DocOf(r, role) == IF role = "cur" THEN r.u ELSE r.t
CopyOf(r, role) == IF role = "cur" THEN r.cur ELSE r.oth
ElementOf(r, role) == IF role = "cur" THEN r.t ELSE r.u

\* the filter removed something, so the array is modified and the save sets it
SetsArray(r, role) ==
  /\ SetField(r.op, role) # "none"
  /\ Filter(CopyOf(r, role)[SetField(r.op, role)], ElementOf(r, role))
       # CopyOf(r, role)[SetField(r.op, role)]

Pushes(r, role) == PushField(r.op, role) # "none"

\* save() has something to write
Writes(r, role) == SetsArray(r, role) \/ Pushes(r, role)

\* the stored document after the save of handler r for that role
Saved(stored, r, role) ==
  LET afterSet ==
        IF SetsArray(r, role)
        THEN [stored EXCEPT ![SetField(r.op, role)] =
                Filter(CopyOf(r, role)[SetField(r.op, role)], ElementOf(r, role))]
        ELSE stored
  IN
  IF Pushes(r, role)
  THEN [afterSet EXCEPT ![PushField(r.op, role)] = Append(@, ElementOf(r, role))]
  ELSE afterSet

SuccessMessage(op) ==
  CASE op = "send" -> "Friend request sent"
    [] op = "accept" -> "Friend request accepted"
    [] op = "decline" -> "Friend request declined"
    [] OTHER -> "Friend removed"

FailureMessage(op) ==
  CASE op = "send" -> "Failed to send friend request"
    [] op = "accept" -> "Failed to accept friend request"
    [] op = "decline" -> "Failed to decline friend request"
    [] OTHER -> "Failed to remove friend"

\* Rejection as it would be without the check of the requests already sent
RejectionWithoutSentCheck(op, cur, oth, t) ==
  IF cur = Null \/ oth = Null THEN "User not found"
  ELSE IF op = "send" /\ Some(cur.friends, t) THEN "Already friends"
  ELSE IF op = "accept" /\ ~Some(cur.friendRequests, t)
  THEN "No friend request from this user"
  ELSE ""

\* Rejection as it would be without the check of friendRequests
RejectionWithoutRequestCheck(op, cur, oth, t) ==
  IF cur = Null \/ oth = Null THEN "User not found"
  ELSE IF op = "send" /\ Some(cur.friends, t) THEN "Already friends"
  ELSE IF op = "send" /\ Some(cur.sentFriendRequests, t)
  THEN "Friend request already sent"
  ELSE ""

\* the rejection the handler answers with once it has read the two documents,
\* "" if there is none
Rejection(op, cur, oth, t) ==
  IF cur = Null \/ oth = Null THEN "User not found"
  ELSE IF op = "send" /\ Some(cur.friends, t) THEN "Already friends"
  ELSE IF op = "send" /\ Some(cur.sentFriendRequests, t)
  THEN "Friend request already sent"
  ELSE IF op = "accept" /\ ~Some(cur.friendRequests, t)
  THEN "No friend request from this user"
  ELSE ""

\* handler r with the document of a role read
ReadInto(r, role) ==
  IF role = "cur" THEN [r EXCEPT !.cur = FindById(r.u)]
  ELSE [r EXCEPT !.oth = FindById(r.t)]

\* a friend-request handler from its start to the first of its two findById
\* to be served, the one of role first
BeginRequest(h, op, u, t, first) ==
  /\ running[h].pc = "idle"
  /\ IF op = "send" /\ t = u
     THEN /\ resp' = Reply(op, u, t, 400, "Cannot send friend request to yourself")
          /\ UNCHANGED running
     ELSE /\ Goes(h, ReadInto([Idle EXCEPT !.pc = "read", !.op = op, !.u = u, !.t = t],
                              first))
          /\ resp' = NoResponse
  /\ started' = IF started < MaxRequests THEN started + 1 ELSE started
  /\ UNCHANGED <<users, issued, expired>>
  /\ NotesUnchanged
  /\ HistoryUnchanged

\* POST /friends/request/:userId
SendFriendRequest(h, u, t, first) == BeginRequest(h, "send", u, t, first)

\* POST /friends/accept/:userId
AcceptFriendRequest(h, u, t, first) == BeginRequest(h, "accept", u, t, first)

\* POST /friends/decline/:userId
DeclineFriendRequest(h, u, t, first) == BeginRequest(h, "decline", u, t, first)

\* DELETE /friends/:userId
RemoveFriend(h, u, t, first) == BeginRequest(h, "remove", u, t, first)

\* the second findById is served: the handler checks its two copies, answers a
\* rejection, or changes the copies and calls Promise.all([save(), save()]),
\* which it awaits whether or not the saves have anything to write
ReadSecond(h) ==
  LET r == running[h]
      both == IF r.cur = NoDoc THEN ReadInto(r, "cur") ELSE ReadInto(r, "oth")
      rejection == Rejection(both.op, both.cur, both.oth, both.t)
      saving == [both EXCEPT !.pc = "save", !.curSave = "pending", !.othSave = "pending"]
  IN
  /\ r.op \in FriendOps /\ r.pc = "read"
  /\ IF rejection # ""
     THEN /\ resp' = Reply(r.op, r.u, r.t,
                           IF rejection = "User not found" THEN 404 ELSE 400, rejection)
          /\ Ends(h)
     ELSE /\ resp' = NoResponse
          /\ Goes(h, saving)
  /\ UNCHANGED <<users, issued, expired, started>>
  /\ NotesUnchanged
  /\ HistoryUnchanged

\* one save of handler h reaches the database: it is rejected (by the
\* database, or because it sets an array of a document whose version has
\* moved since the handler read it) or it is applied; a save with nothing to
\* write only finds out that the document exists, and changes no version.
\* Promise.all answers 200 when both saves are applied and the catch block
\* answers 500 at the first that is rejected; the other save is carried out
\* all the same.
SaveDocument(h, role, rejected) ==
  LET r == running[h]
      w == DocOf(r, role)
      stale == IF role = "cur" THEN r.curStale ELSE r.othStale
      other == IF role = "cur" THEN r.othSave ELSE r.curSave
      fails == rejected \/ (SetsArray(r, role) /\ stale)
      settled(v) == IF role = "cur" THEN [r EXCEPT !.curSave = v] ELSE [r EXCEPT !.othSave = v]
      after(v) == IF other = "pending" THEN settled(v) ELSE Idle
  IN
  /\ r.op \in FriendOps /\ r.pc = "save"
  /\ (IF role = "cur" THEN r.curSave ELSE r.othSave) = "pending"
  /\ IF fails
     THEN /\ running' = [running EXCEPT ![h] = after("failed")]
          /\ UNCHANGED users
          /\ resp' = IF other # "failed"
                     THEN Reply(r.op, r.u, r.t, 500, FailureMessage(r.op))
                     ELSE NoResponse
     ELSE /\ users' = [users EXCEPT ![w] = Saved(users[w], r, role)]
          /\ running' =
               [g \in Handlers |->
                  IF g = h THEN after("saved")
                  ELSE IF running[g].op \in FriendOps /\ Writes(r, role)
                  THEN [running[g] EXCEPT
                          !.curStale = @ \/ (running[g].u = w /\ running[g].cur # NoDoc),
                          !.othStale = @ \/ (running[g].t = w /\ running[g].oth # NoDoc)]
                  ELSE running[g]]
          /\ resp' = IF other = "saved"
                     THEN Reply(r.op, r.u, r.t, 200, SuccessMessage(r.op))
                     ELSE NoResponse
  /\ UNCHANGED <<issued, expired, started>>
  /\ NotesUnchanged
  /\ HistoryUnchanged

\* currentUser.save()
SaveCurrent(h, rejected) == SaveDocument(h, "cur", rejected)

\* the save() of the other user's document
SaveOther(h, rejected) == SaveDocument(h, "oth", rejected)

\* the search strings of GET /users/search
Queries == {"", "a", "@x", "a@"}

\* q.length
QueryLength(q) ==
  CASE q = "" -> 0
    [] q = "a" -> 1
    [] OTHER -> 2

MinQueryLength == 2

\* { $regex: q, $options: 'i' } on the name or the email of a stored user
MatchesQuery(q, user) ==
  CASE q = "@x" -> user.email \in {"a@x", "b@x", "c@x", "d@x"}
    [] q = "a@" -> user.email = "a@x"
    [] OTHER -> FALSE

\* usersWithStatus of GET /users/search: the users found, with their place in
\* the lists of currentUser
usersWithStatus(currentUser, found) ==
  {[id |-> w,
    isFriend |-> currentUser # Null /\ Some(currentUser.friends, w),
    isPending |-> currentUser # Null /\ Some(currentUser.sentFriendRequests, w),
    hasRequest |-> currentUser # Null /\ Some(currentUser.friendRequests, w)] :
     w \in found}

\* GET /users/search?q=: the check of q and User.find
SearchUsers(h, u, q) ==
  /\ running[h].pc = "idle"
  /\ IF QueryLength(q) < MinQueryLength
     THEN /\ resp' = Reply("search", u, 0, 400, "Search query must be at least 2 characters")
          /\ UNCHANGED running
     ELSE /\ Goes(h, [Idle EXCEPT !.pc = "status", !.op = "search", !.u = u,
                        !.body = [q |-> q,
                                  found |-> {x \in ExistingUsers :
                                               x # u /\ MatchesQuery(q, users[x])}]])
          /\ resp' = NoResponse
  /\ UNCHANGED <<users, issued, expired, started>>
  /\ NotesUnchanged
  /\ HistoryUnchanged

\* GET /users/search: User.findById of the requester and the statuses
SearchUsersStatus(h) ==
  LET r == running[h]
  IN
  /\ r.op = "search" /\ r.pc = "status"
  /\ resp' = [Reply("search", r.u, 0, 200, "")
                EXCEPT !.statuses = usersWithStatus(FindById(r.u), r.body.found)]
  /\ Ends(h)
  /\ UNCHANGED <<users, issued, expired, started>>
  /\ NotesUnchanged
  /\ HistoryUnchanged

(***************************************************************************)
(* The Note collection and the image store.                                *)
(*                                                                         *)
(* A title is the text typed (base) and the number of " (Copy)" suffixes   *)
(* duplication has appended.  A content is the id of the user who wrote    *)
(* the text, 0 for the empty default.  deletedAt is 0 for null and 1 for a *)
(* date.  A stored image is its id and its publicId in the image store; an *)
(* image of a request body is its id, whether its url is a data: URL, and  *)
(* its publicId (0 for none).                                              *)
(***************************************************************************)
Untitled == "Untitled"

\* title || 'Untitled'
TitleOrUntitled(title) == IF title = "" THEN Untitled ELSE title

\* `${title} (Copy)`
CopyTitle(title) == [title EXCEPT !.copies = @ + 1]

\* note.save() of a new document with _id id
PutNote(id, note) ==
  [i \in DOMAIN notes \cup {id} |-> IF i = id THEN note ELSE notes[i]]

\* Note.findByIdAndDelete / Note.deleteMany on the ids in S
RemoveNotes(S) == [i \in DOMAIN notes \ S |-> notes[i]]

\* Note.findOne({ _id: id, userId: u }): found
FindOwned(id, u) == id \in DOMAIN notes /\ notes[id].userId = u

\* the position of the first data: URL of imgs at or after k, Len(imgs) + 1 if
\* there is none
NextData(imgs, k) ==
  IF \E j \in k..Len(imgs) : imgs[j].data
  THEN CHOOSE j \in k..Len(imgs) : imgs[j].data /\ \A i \in k..(j - 1) : ~imgs[i].data
  ELSE Len(imgs) + 1

\* the uploadedImages loop from position k up to its next await: the images
\* that are no data: URLs are pushed as sent
KeptFrom(imgs, k) ==
  [i \in 1..(NextData(imgs, k) - k) |->
     [id |-> imgs[k + i - 1].id, publicId |-> imgs[k + i - 1].publicId]]

\* uploadBase64 of the next data: URL has returned: its image is pushed with
\* the new publicId, and the loop goes on to its next await
Uploaded(r) ==
  LET k == Len(r.images) + 1
  IN
  [r EXCEPT !.images = (@ \o <<[id |-> r.body.images[k].id, publicId |-> cloudSeq + 1]>>)
                         \o KeptFrom(r.body.images, k + 1)]

\* the publicIds deleteFile is called for, in the order of the images
PublicIdSeq(images) ==
  LET withId == SelectSeq(images, LAMBDA img : img.publicId # 0)
  IN
  [i \in DOMAIN withId |-> withId[i].publicId]

\* existingNote.images.filter((img) => !newImageIds.includes(img.id))
RemovedImages(existing, imgs) ==
  SelectSeq(existing, LAMBDA img : \A j \in DOMAIN imgs : imgs[j].id # img.id)

\* NotesFilter as it would be if the archive listing did not exclude the trash
NotesFilterArchiveWithTrash(note, u, archived, deleted) ==
  /\ note.userId = u
  /\ IF deleted = "true"
     THEN note.isDeleted
     ELSE IF archived = "true"
     THEN note.isArchived
     ELSE ~note.isDeleted /\ ~note.isArchived

\* the filter of GET /: deleted=true, else archived=true, else neither
NotesFilter(note, u, archived, deleted) ==
  /\ note.userId = u
  /\ IF deleted = "true"
     THEN note.isDeleted
     ELSE IF archived = "true"
     THEN ~note.isDeleted /\ note.isArchived
     ELSE ~note.isDeleted /\ ~note.isArchived

\* Note.find(filter), as the set of the ids found
FindNotes(u, archived, deleted) ==
  {i \in DOMAIN notes : NotesFilter(notes[i], u, archived, deleted)}

\* UserNotesFilter as it would be without the isPublic condition for friends
UserNotesFilterWithoutPublic(note, t, isOwn) ==
  /\ note.userId = t
  /\ ~note.isDeleted
  /\ ~note.isArchived

\* the filter of GET /user/:userId
UserNotesFilter(note, t, isOwn) ==
  /\ note.userId = t
  /\ ~note.isDeleted
  /\ ~note.isArchived
  /\ isOwn \/ note.isPublic

\* the likes array of the handler's copy after the toggle of POST /:id/like
ToggleLike(likes, u) ==
  IF Some(likes, u) THEN Filter(likes, u) ELSE Append(likes, u)

\* the stored likes after note.save() of a copy read with the likes read and
\* toggled for u: a filtered array is set, a pushed id is pushed onto the
\* stored array
SavedLikes(stored, read, u) ==
  IF Len(ToggleLike(read, u)) > Len(read) THEN Append(stored, u) ELSE ToggleLike(read, u)

\* history: the contents a public note of their author carries in ns are published
PublishedAfter(ns) ==
  published \cup {ns[i].content : i \in {j \in DOMAIN ns :
                     ns[j].isPublic /\ ns[j].content = ns[j].userId}}

\* the validation of the images at save(): ImageSchema requires a publicId
ValidImages(images) == \A i \in DOMAIN images : images[i].publicId # 0

\* new Note({ ... }) of POST /, with the schema defaults
NewNote(u, body, images) ==
  [userId |-> u,
   title |-> [base |-> TitleOrUntitled(body.title), copies |-> 0],
   content |-> body.content,
   images |-> images,
   isPinned |-> body.isPinned,
   isArchived |-> FALSE,
   isDeleted |-> FALSE,
   deletedAt |-> 0,
   isPublic |-> TRUE,
   likes |-> <<>>]

(***************************************************************************)
(* Notes routes.  u is the authenticated user (req.userId), id the :id     *)
(* parameter.                                                              *)
(***************************************************************************)
\* GET /
ListNotes(u, archived, deleted) ==
  /\ resp' = [Reply("list", u, 0, 200, "") EXCEPT
                !.ids = FindNotes(u, archived, deleted),
                !.archived = archived, !.deleted = deleted]
  /\ UNCHANGED <<users, issued, expired, running, started>>
  /\ NotesUnchanged
  /\ HistoryUnchanged

\* GET /:id
GetNote(u, id) ==
  /\ IF ~FindOwned(id, u)
     THEN resp' = Reply("get", u, id, 404, "Note not found")
     ELSE resp' = [Reply("get", u, id, 200, "") EXCEPT !.ids = {id}]
  /\ UNCHANGED <<users, issued, expired, running, started>>
  /\ NotesUnchanged
  /\ HistoryUnchanged

\* note.save() of POST /: the document is inserted and answered, or it fails
\* the validation and the catch block answers
InsertNote(h, r) ==
  LET id == noteSeq + 1
  IN
  /\ IF ValidImages(r.images)
     THEN /\ notes' = PutNote(id, NewNote(r.u, r.body, r.images))
          /\ noteSeq' = id
          /\ resp' = [Reply("create", r.u, id, 201, "") EXCEPT !.ids = {id}]
     ELSE /\ UNCHANGED <<notes, noteSeq>>
          /\ resp' = Reply("create", r.u, 0, 500, "Failed to create note")
  /\ Ends(h)
  /\ published' = PublishedAfter(notes')
  /\ trashed' = NoTrashed
  /\ UNCHANGED <<users, issued, expired, started, cloud, cloudSeq>>

\* POST /upload with or without an image in the body, and POST /upload-file
\* with or without a file: uploadBase64 or uploadFile stores the image
UploadRoute(op, u, given, missing) ==
  /\ IF ~given
     THEN /\ resp' = Reply(op, u, 0, 400, missing)
          /\ UNCHANGED <<cloud, cloudSeq>>
     ELSE /\ cloud' = cloud \cup {cloudSeq + 1}
          /\ cloudSeq' = cloudSeq + 1
          /\ resp' = Reply(op, u, cloudSeq + 1, 200, "")
  /\ UNCHANGED <<users, issued, expired, running, started, notes, noteSeq>>
  /\ HistoryUnchanged

\* POST /upload
UploadImage(u, given) == UploadRoute("upload", u, given, "No image provided")

\* POST /upload-file
UploadFile(u, given) == UploadRoute("upload-file", u, given, "No file provided")

\* uploadBase64 of the next data: URL of handler h, which then stands at pc
\* next once the loop is through
UploadNext(h, next) ==
  LET r == Uploaded(running[h])
  IN
  /\ cloud' = cloud \cup {cloudSeq + 1}
  /\ cloudSeq' = cloudSeq + 1
  /\ Goes(h, [r EXCEPT !.pc = IF Len(r.images) < Len(r.body.images)
                               THEN "upload" ELSE next])
  /\ resp' = NoResponse
  /\ UNCHANGED <<users, issued, expired, started, notes, noteSeq>>
  /\ HistoryUnchanged

\* POST /: the handler up to its first await, which is the upload of the first
\* data: URL or, if the body has none, note.save()
CreateNote(h, u, title, content, images, isPinned) ==
  LET r == [Idle EXCEPT !.pc = "upload", !.op = "create", !.u = u,
                        !.body = [title |-> title, content |-> content,
                                  images |-> images, isPinned |-> isPinned],
                        !.images = KeptFrom(images, 1)]
  IN
  /\ running[h].pc = "idle"
  /\ IF Len(r.images) = Len(images)
     THEN InsertNote(h, r)
     ELSE /\ cloud' = cloud \cup {cloudSeq + 1}
          /\ cloudSeq' = cloudSeq + 1
          /\ Goes(h, [Uploaded(r) EXCEPT
                        !.pc = IF Len(Uploaded(r).images) < Len(images)
                               THEN "upload" ELSE "save"])
          /\ resp' = NoResponse
          /\ UNCHANGED <<users, issued, expired, started, notes, noteSeq>>
          /\ HistoryUnchanged

\* POST /: uploadBase64 of a further data: URL
CreateNoteUpload(h) ==
  /\ running[h].op = "create" /\ running[h].pc = "upload"
  /\ UploadNext(h, "save")

\* POST /: note.save()
CreateNoteSave(h) ==
  /\ running[h].op = "create" /\ running[h].pc = "save"
  /\ InsertNote(h, running[h])

\* the handler of PUT /:id once its uploads are through: it goes on to delete
\* the removed images that have a publicId, then to findByIdAndUpdate
AfterUploads(r) ==
  LET todo == PublicIdSeq(RemovedImages(r.cur.images, r.body.images))
  IN
  [r EXCEPT !.todo = todo, !.pc = IF todo = <<>> THEN "save" ELSE "file"]

\* PUT /:id with body { title, content, images, isPinned, isArchived }, where
\* isPinned and isArchived are "true", "false" or "undefined": Note.findOne
UpdateNote(h, u, id, body) ==
  LET r == [Idle EXCEPT !.op = "update", !.u = u, !.t = id, !.body = body,
                        !.cur = notes[id], !.images = KeptFrom(body.images, 1)]
  IN
  /\ running[h].pc = "idle"
  /\ IF ~FindOwned(id, u)
     THEN /\ resp' = Reply("update", u, id, 404, "Note not found")
          /\ UNCHANGED running
     ELSE /\ Goes(h, IF Len(r.images) < Len(body.images)
                     THEN [r EXCEPT !.pc = "upload"]
                     ELSE AfterUploads(r))
          /\ resp' = NoResponse
  /\ UNCHANGED <<users, issued, expired, started>>
  /\ NotesUnchanged
  /\ HistoryUnchanged

\* PUT /:id: uploadBase64 of the next data: URL
UpdateNoteUpload(h) ==
  LET r == Uploaded(running[h])
  IN
  /\ running[h].op = "update" /\ running[h].pc = "upload"
  /\ cloud' = cloud \cup {cloudSeq + 1}
  /\ cloudSeq' = cloudSeq + 1
  /\ Goes(h, IF Len(r.images) < Len(r.body.images) THEN r ELSE AfterUploads(r))
  /\ resp' = NoResponse
  /\ UNCHANGED <<users, issued, expired, started, notes, noteSeq>>
  /\ HistoryUnchanged

\* deleteFile of the next publicId handler h has to delete, after which it
\* stands at pc next once none is left
DeleteNextFile(h, next) ==
  LET r == running[h]
  IN
  /\ r.pc = "file"
  /\ cloud' = cloud \ {Head(r.todo)}
  /\ Goes(h, [r EXCEPT !.todo = Tail(@),
                       !.pc = IF Tail(r.todo) = <<>> THEN next ELSE "file"])
  /\ resp' = NoResponse
  /\ UNCHANGED <<users, issued, expired, started, notes, noteSeq, cloudSeq>>
  /\ HistoryUnchanged

\* PUT /:id: deleteFile of a removed image
UpdateNoteDeleteFile(h) ==
  /\ running[h].op = "update"
  /\ DeleteNextFile(h, "save")

\* PUT /:id: Note.findByIdAndUpdate(id, updateData), answered with the updated
\* document, or with null if the note is no longer there
UpdateNoteSave(h) ==
  LET r == running[h]
      id == r.t
  IN
  /\ r.op = "update" /\ r.pc = "save"
  /\ IF id \in DOMAIN notes
     THEN /\ notes' = [notes EXCEPT
                         ![id].title = [base |-> TitleOrUntitled(r.body.title), copies |-> 0],
                         ![id].content = r.body.content,
                         ![id].images = r.images,
                         ![id].isPinned = IF r.body.isPinned = "undefined" THEN @
                                          ELSE r.body.isPinned = "true",
                         ![id].isArchived = IF r.body.isArchived = "undefined" THEN @
                                            ELSE r.body.isArchived = "true"]
          /\ resp' = [Reply("update", r.u, id, 200, "") EXCEPT !.ids = {id}]
     ELSE /\ UNCHANGED notes
          /\ resp' = Reply("update", r.u, id, 200, "")
  /\ Ends(h)
  /\ published' = PublishedAfter(notes')
  /\ trashed' = NoTrashed
  /\ UNCHANGED <<users, issued, expired, started, noteSeq, cloud, cloudSeq>>

\* DELETE /:id, with ?permanent=true or without: Note.findOne
DeleteNote(h, u, id, permanent) ==
  LET r == [Idle EXCEPT !.op = "delete", !.u = u, !.t = id,
                        !.body = [permanent |-> permanent], !.cur = notes[id]]
      todo == PublicIdSeq(notes[id].images)
  IN
  /\ running[h].pc = "idle"
  /\ IF ~FindOwned(id, u)
     THEN /\ resp' = [Reply("delete", u, id, 404, "Note not found") EXCEPT !.flag = permanent]
          /\ UNCHANGED running
     ELSE /\ Goes(h, IF permanent /\ todo # <<>>
                     THEN [r EXCEPT !.pc = "file", !.todo = todo]
                     ELSE [r EXCEPT !.pc = "save"])
          /\ resp' = NoResponse
  /\ UNCHANGED <<users, issued, expired, started>>
  /\ NotesUnchanged
  /\ HistoryUnchanged

\* DELETE /:id?permanent=true: deleteFile of an image of the note
DeleteNoteFile(h) ==
  /\ running[h].op = "delete"
  /\ DeleteNextFile(h, "save")

\* DELETE /:id: Note.findByIdAndDelete, or Note.findByIdAndUpdate to the trash
DeleteNoteSave(h) ==
  LET r == running[h]
      id == r.t
  IN
  /\ r.op = "delete" /\ r.pc = "save"
  /\ IF r.body.permanent
     THEN /\ notes' = RemoveNotes({id})
          /\ resp' = [Reply("delete", r.u, id, 200, "Note permanently deleted")
                        EXCEPT !.flag = TRUE]
          /\ trashed' = NoTrashed
     ELSE /\ notes' = IF id \in DOMAIN notes
                      THEN [notes EXCEPT ![id].isDeleted = TRUE, ![id].deletedAt = 1]
                      ELSE notes
          /\ resp' = [Reply("delete", r.u, id, 200, "Note moved to trash")
                        EXCEPT !.flag = FALSE]
          /\ trashed' = IF id \in DOMAIN notes THEN [id |-> id, note |-> notes[id]]
                        ELSE NoTrashed
  /\ Ends(h)
  /\ UNCHANGED <<users, issued, expired, started, noteSeq, cloud, cloudSeq, published>>

\* RestoreNote as it would be if the lookup did not ask for isDeleted: true
RestoreNoteWithoutTrashFilter(h, u, id) ==
  /\ running[h].pc = "idle"
  /\ IF ~FindOwned(id, u)
     THEN /\ resp' = Reply("restore", u, id, 404, "Note not found in trash")
          /\ UNCHANGED running
          /\ trashed' = NoTrashed
     ELSE /\ Goes(h, [Idle EXCEPT !.pc = "save", !.op = "restore", !.u = u, !.t = id,
                                  !.cur = notes[id]])
          /\ resp' = NoResponse
          /\ UNCHANGED trashed
  /\ UNCHANGED <<users, issued, expired, started, published>>
  /\ NotesUnchanged

\* POST /:id/restore: Note.findOne({ _id, userId, isDeleted: true })
RestoreNote(h, u, id) ==
  /\ running[h].pc = "idle"
  /\ IF ~(FindOwned(id, u) /\ notes[id].isDeleted)
     THEN /\ resp' = Reply("restore", u, id, 404, "Note not found in trash")
          /\ UNCHANGED running
          /\ trashed' = NoTrashed
     ELSE /\ Goes(h, [Idle EXCEPT !.pc = "save", !.op = "restore", !.u = u, !.t = id,
                                  !.cur = notes[id]])
          /\ resp' = NoResponse
          /\ UNCHANGED trashed
  /\ UNCHANGED <<users, issued, expired, started, published>>
  /\ NotesUnchanged

\* POST /:id/restore: Note.findByIdAndUpdate clears isDeleted and deletedAt
RestoreNoteSave(h) ==
  LET r == running[h]
      id == r.t
  IN
  /\ r.op = "restore" /\ r.pc = "save"
  /\ notes' = IF id \in DOMAIN notes
              THEN [notes EXCEPT ![id].isDeleted = FALSE, ![id].deletedAt = 0]
              ELSE notes
  /\ resp' = Reply("restore", r.u, id, 200, "Note restored successfully")
  /\ Ends(h)
  /\ UNCHANGED <<users, issued, expired, started, noteSeq, cloud, cloudSeq,
                 published, trashed>>

\* the notes in the trash of u
TrashOf(u) == {i \in DOMAIN notes : notes[i].userId = u /\ notes[i].isDeleted}

\* the publicIds of the images of the notes in S, in the order of the notes
RECURSIVE PublicIdsOfNotes(_)
PublicIdsOfNotes(S) ==
  IF S = {} THEN <<>>
  ELSE LET i == CHOOSE j \in S : \A k \in S : j <= k
       IN PublicIdSeq(notes[i].images) \o PublicIdsOfNotes(S \ {i})

\* DELETE /trash/empty: Note.find({ userId, isDeleted: true })
EmptyTrash(h, u) ==
  LET todo == PublicIdsOfNotes(TrashOf(u))
  IN
  /\ running[h].pc = "idle"
  /\ Goes(h, [Idle EXCEPT !.op = "empty", !.u = u, !.todo = todo,
                          !.pc = IF todo = <<>> THEN "save" ELSE "file"])
  /\ resp' = NoResponse
  /\ UNCHANGED <<users, issued, expired, started>>
  /\ NotesUnchanged
  /\ HistoryUnchanged

\* DELETE /trash/empty: deleteFile of an image of a note found in the trash
EmptyTrashFile(h) ==
  /\ running[h].op = "empty"
  /\ DeleteNextFile(h, "save")

\* DELETE /trash/empty: Note.deleteMany({ userId, isDeleted: true })
EmptyTrashSave(h) ==
  LET r == running[h]
  IN
  /\ r.op = "empty" /\ r.pc = "save"
  /\ notes' = RemoveNotes(TrashOf(r.u))
  /\ resp' = [Reply("empty", r.u, 0, 200, "Trash emptied successfully")
                EXCEPT !.ids = TrashOf(r.u)]
  /\ Ends(h)
  /\ trashed' = NoTrashed
  /\ UNCHANGED <<users, issued, expired, started, noteSeq, cloud, cloudSeq, published>>

\* POST /:id/like: Note.findById, the checks and the toggle of the copy
LikeNote(h, u, id) ==
  /\ running[h].pc = "idle"
  /\ IF id \notin DOMAIN notes
     THEN /\ resp' = Reply("like", u, id, 404, "Note not found")
          /\ UNCHANGED running
     ELSE IF ~notes[id].isPublic /\ notes[id].userId # u
     THEN /\ resp' = Reply("like", u, id, 403, "Cannot like private note")
          /\ UNCHANGED running
     ELSE /\ Goes(h, [Idle EXCEPT !.pc = "save", !.op = "like", !.u = u, !.t = id,
                                  !.cur = notes[id]])
          /\ resp' = NoResponse
  /\ UNCHANGED <<users, issued, expired, started>>
  /\ NotesUnchanged
  /\ HistoryUnchanged

\* POST /:id/like: note.save().  The images of the note may fail the
\* validation, the note may be gone, and a filtered likes array is set under
\* the document version the handler read; a pushed id is pushed whatever the
\* version.
LikeNoteSave(h) ==
  LET r == running[h]
      id == r.t
      alreadyLiked == Some(r.cur.likes, r.u)
  IN
  /\ r.op = "like" /\ r.pc = "save"
  /\ IF ~ValidImages(r.cur.images) \/ id \notin DOMAIN notes \/ (alreadyLiked /\ r.curStale)
     THEN /\ resp' = Reply("like", r.u, id, 500, "Failed to toggle like")
          /\ Ends(h)
          /\ UNCHANGED notes
     ELSE /\ notes' = [notes EXCEPT ![id].likes = SavedLikes(@, r.cur.likes, r.u)]
          /\ resp' = [Reply("like", r.u, id, 200, "") EXCEPT
                        !.flag = ~alreadyLiked,
                        !.count = Len(ToggleLike(r.cur.likes, r.u))]
          /\ running' =
               [g \in Handlers |->
                  IF g = h THEN Idle
                  ELSE IF running[g].op = "like" /\ running[g].t = id
                  THEN [running[g] EXCEPT !.curStale = TRUE]
                  ELSE running[g]]
  /\ trashed' = NoTrashed
  /\ UNCHANGED <<users, issued, expired, started, noteSeq, cloud, cloudSeq, published>>

\* POST /:id/duplicate: Note.findById
DuplicateNote(h, u, id) ==
  /\ running[h].pc = "idle"
  /\ IF id \notin DOMAIN notes
     THEN /\ resp' = Reply("duplicate", u, id, 404, "Note not found")
          /\ UNCHANGED running
     ELSE /\ Goes(h, [Idle EXCEPT !.op = "duplicate", !.u = u, !.t = id, !.cur = notes[id],
                                  !.pc = IF ~notes[id].isPublic /\ notes[id].userId # u
                                         THEN "owner" ELSE "save"])
          /\ resp' = NoResponse
  /\ UNCHANGED <<users, issued, expired, started>>
  /\ NotesUnchanged
  /\ HistoryUnchanged

\* POST /:id/duplicate of another user's private note: User.findById of the owner
DuplicateNoteOwner(h) ==
  LET r == running[h]
  IN
  /\ r.op = "duplicate" /\ r.pc = "owner"
  /\ Goes(h, [r EXCEPT !.pc = "user", !.oth = FindById(r.cur.userId)])
  /\ resp' = NoResponse
  /\ UNCHANGED <<users, issued, expired, started>>
  /\ NotesUnchanged
  /\ HistoryUnchanged

\* POST /:id/duplicate of another user's private note: User.findById of the
\* requester and the check that the owner is in the requester's friends
DuplicateNoteUser(h) ==
  LET r == running[h]
      currentUser == FindById(r.u)
  IN
  /\ r.op = "duplicate" /\ r.pc = "user"
  /\ IF r.oth = Null \/ currentUser = Null
     THEN /\ resp' = Reply("duplicate", r.u, r.t, 404, "User not found")
          /\ Ends(h)
     ELSE IF ~Some(currentUser.friends, r.cur.userId)
     THEN /\ resp' = Reply("duplicate", r.u, r.t, 403, "Cannot duplicate private note")
          /\ Ends(h)
     ELSE /\ resp' = NoResponse
          /\ Goes(h, [r EXCEPT !.pc = "save"])
  /\ UNCHANGED <<users, issued, expired, started>>
  /\ NotesUnchanged
  /\ HistoryUnchanged

\* POST /:id/duplicate: duplicatedNote.save() inserts the copy of the note
\* read, or the copy fails the validation and the catch block answers
DuplicateNoteSave(h) ==
  LET r == running[h]
      new == noteSeq + 1
      copy == [userId |-> r.u,
               title |-> CopyTitle(r.cur.title),
               content |-> r.cur.content,
               images |-> r.cur.images,
               isPinned |-> FALSE,
               isArchived |-> FALSE,
               isDeleted |-> FALSE,
               deletedAt |-> 0,
               isPublic |-> TRUE,
               likes |-> <<>>]
  IN
  /\ r.op = "duplicate" /\ r.pc = "save"
  /\ IF ValidImages(copy.images)
     THEN /\ notes' = PutNote(new, copy)
          /\ noteSeq' = new
          /\ resp' = [Reply("duplicate", r.u, r.t, 201, "") EXCEPT !.ids = {new}]
     ELSE /\ UNCHANGED <<notes, noteSeq>>
          /\ resp' = Reply("duplicate", r.u, r.t, 500, "Failed to duplicate note")
  /\ Ends(h)
  /\ published' = PublishedAfter(notes')
  /\ trashed' = NoTrashed
  /\ UNCHANGED <<users, issued, expired, started, cloud, cloudSeq>>

\* SetVisibility as it would be if the note were looked up by its id alone
SetVisibilityOfAnyNote(h, u, id, isPublic) ==
  /\ running[h].pc = "idle"
  /\ IF id \notin DOMAIN notes
     THEN /\ resp' = [Reply("visibility", u, id, 404, "Note not found")
                        EXCEPT !.flag = isPublic]
          /\ UNCHANGED running
     ELSE /\ Goes(h, [Idle EXCEPT !.pc = "save", !.op = "visibility", !.u = u, !.t = id,
                                  !.body = [isPublic |-> isPublic], !.cur = notes[id]])
          /\ resp' = NoResponse
  /\ UNCHANGED <<users, issued, expired, started>>
  /\ NotesUnchanged
  /\ HistoryUnchanged

\* PUT /:id/visibility with body { isPublic }: Note.findOne
SetVisibility(h, u, id, isPublic) ==
  /\ running[h].pc = "idle"
  /\ IF ~FindOwned(id, u)
     THEN /\ resp' = [Reply("visibility", u, id, 404, "Note not found")
                        EXCEPT !.flag = isPublic]
          /\ UNCHANGED running
     ELSE /\ Goes(h, [Idle EXCEPT !.pc = "save", !.op = "visibility", !.u = u, !.t = id,
                                  !.body = [isPublic |-> isPublic], !.cur = notes[id]])
          /\ resp' = NoResponse
  /\ UNCHANGED <<users, issued, expired, started>>
  /\ NotesUnchanged
  /\ HistoryUnchanged

\* PUT /:id/visibility: note.save() sets isPublic if the handler changed it;
\* the save fails if the images of the note fail the validation or the note
\* is gone, whether or not it has something to write
SetVisibilitySave(h) ==
  LET r == running[h]
      id == r.t
      modified == r.body.isPublic # r.cur.isPublic
  IN
  /\ r.op = "visibility" /\ r.pc = "save"
  /\ IF ~ValidImages(r.cur.images) \/ id \notin DOMAIN notes
     THEN /\ resp' = [Reply("visibility", r.u, id, 500, "Failed to update visibility")
                        EXCEPT !.flag = r.body.isPublic]
          /\ UNCHANGED notes
     ELSE /\ notes' = IF modified THEN [notes EXCEPT ![id].isPublic = r.body.isPublic]
                      ELSE notes
          /\ resp' = [Reply("visibility", r.u, id, 200, "Note visibility updated")
                        EXCEPT !.flag = r.body.isPublic]
  /\ Ends(h)
  /\ published' = PublishedAfter(notes')
  /\ trashed' = NoTrashed
  /\ UNCHANGED <<users, issued, expired, started, noteSeq, cloud, cloudSeq>>

\* GET /user/:userId: the first of the two User.findById to be served
ListUserNotes(h, u, t, first) ==
  /\ running[h].pc = "idle"
  /\ Goes(h, ReadInto([Idle EXCEPT !.pc = "read", !.op = "usernotes", !.u = u, !.t = t],
                      first))
  /\ resp' = NoResponse
  /\ UNCHANGED <<users, issued, expired, started>>
  /\ NotesUnchanged
  /\ HistoryUnchanged

\* GET /user/:userId: the second User.findById and the checks of friendship
\* and privacy
ListUserNotesSecond(h) ==
  LET r == running[h]
      both == IF r.cur = NoDoc THEN ReadInto(r, "cur") ELSE ReadInto(r, "oth")
  IN
  /\ r.op = "usernotes" /\ r.pc = "read"
  /\ IF both.cur = Null \/ both.oth = Null
     THEN /\ resp' = Reply("usernotes", r.u, r.t, 404, "User not found")
          /\ Ends(h)
     ELSE IF r.u # r.t /\ ~Some(both.cur.friends, r.t)
     THEN /\ resp' = Reply("usernotes", r.u, r.t, 403, "Not authorized to view notes")
          /\ Ends(h)
     ELSE IF r.u # r.t /\ both.oth.isPrivate
     THEN /\ resp' = Reply("usernotes", r.u, r.t, 403, "User profile is private")
          /\ Ends(h)
     ELSE /\ resp' = NoResponse
          /\ Goes(h, [both EXCEPT !.pc = "find"])
  /\ UNCHANGED <<users, issued, expired, started>>
  /\ NotesUnchanged
  /\ HistoryUnchanged

\* GET /user/:userId: Note.find(filter)
ListUserNotesFind(h) ==
  LET r == running[h]
  IN
  /\ r.op = "usernotes" /\ r.pc = "find"
  /\ resp' = [Reply("usernotes", r.u, r.t, 200, "") EXCEPT
                !.ids = {i \in DOMAIN notes : UserNotesFilter(notes[i], r.t, r.u = r.t)}]
  /\ Ends(h)
  /\ UNCHANGED <<users, issued, expired, started>>
  /\ NotesUnchanged
  /\ HistoryUnchanged

Init ==
  /\ users = <<>>
  /\ notes = <<>>
  /\ noteSeq = 0
  /\ cloud = {}
  /\ cloudSeq = 0
  /\ issued = <<>>
  /\ expired = {}
  /\ resp = NoResponse
  /\ published = {}
  /\ trashed = NoTrashed
  /\ running = [h \in Handlers |-> Idle]
  /\ started = 0

(***************************************************************************)
(* Admission of requests.  A request is taken by the first free handler;   *)
(* where requests are served one at a time, a request is admitted when no  *)
(* handler is in progress.                                                 *)
(***************************************************************************)
Free(h) == running[h].pc = "idle" /\ \A g \in 1..(h - 1) : running[g].pc # "idle"

\* the handlers in progress that may still insert a user
Creating ==
  {h \in Handlers : running[h].op \in {"register", "google"} /\ running[h].t = 0}

\* the handlers in progress that have not signed their tokens yet
Signing ==
  {h \in Handlers : \/ running[h].op = "login" /\ running[h].pc = "compare"
                    \/ running[h].op = "google" /\ running[h].pc = "find"}

CanCreateUser == Len(users) + Cardinality(Creating) < MaxUsers
CanIssue == Len(issued) + Cardinality(Signing) < MaxTokens

GoogleIds == {"g1"}

(***************************************************************************)
(* The authentication routes, with requests that overlap.                  *)
(***************************************************************************)
NextAuth ==
  \/ \E h \in Handlers, e \in Emails \cup {""}, p \in Passwords, nm \in Names :
       /\ Free(h) /\ CanIssue
       /\ CanCreateUser \/ FindOneByEmail(toLowerCase(e)) # 0
       /\ Register(h, e, p, nm)
  \/ \E h \in Handlers : RegisterSave(h)
  \/ \E h \in Handlers, e \in Emails \cup {""}, p \in Passwords :
       Free(h) /\ CanIssue /\ Login(h, e, p)
  \/ \E h \in Handlers : LoginCompare(h)
  \/ \E h \in Handlers : LoginSave(h)
  \/ \E h \in Handlers, t \in PresentableTokens :
       Free(h) /\ CanIssue /\ Refresh(h, t)
  \/ \E h \in Handlers : RefreshSave(h)
  \/ \E h \in Handlers, u \in ExistingUsers : Free(h) /\ Logout(h, u)
  \/ \E h \in Handlers : LogoutSave(h)
  \/ \E h \in Handlers, k \in {"none", "bad", "ok"}, e \in Emails \cup {""}, g \in GoogleIds :
       /\ Free(h) /\ CanIssue
       /\ CanCreateUser \/ FindOneByEmail(toLowerCase(e)) # 0
       /\ GoogleSignIn(h, k, e, g)
  \/ \E h \in Handlers : GoogleFind(h)
  \/ \E h \in Handlers : GoogleSave(h)
  \/ \E n \in DOMAIN issued : Alone /\ Expire(n)

SpecAuth == Init /\ [][NextAuth]_vars

(***************************************************************************)
(* The friend-request lifecycle among registered users, the requests       *)
(* served one at a time.                                                   *)
(***************************************************************************)
EmailOf(i) == CASE i = 1 -> "a@x" [] i = 2 -> "b@x" [] i = 3 -> "c@x" [] OTHER -> "d@x"

Roles == {"cur", "oth"}

\* the registration of the next user, alone
RegisterNext ==
  \/ Alone /\ CanCreateUser /\ Register(1, EmailOf(Len(users) + 1), "secret1", "n")
  \/ RegisterSave(1)

NextFriends ==
  \/ RegisterNext
  \/ \E u \in ExistingUsers, t \in UserIds, first \in Roles :
       Alone /\ SendFriendRequest(1, u, t, first)
  \/ \E u \in ExistingUsers, t \in UserIds, first \in Roles :
       Alone /\ AcceptFriendRequest(1, u, t, first)
  \/ \E u \in ExistingUsers, t \in UserIds, first \in Roles :
       Alone /\ DeclineFriendRequest(1, u, t, first)
  \/ \E u \in ExistingUsers, t \in UserIds, first \in Roles :
       Alone /\ RemoveFriend(1, u, t, first)
  \/ ReadSecond(1)
  \/ SaveCurrent(1, FALSE)
  \/ SaveOther(1, FALSE)
  \/ \E u \in ExistingUsers, q \in Queries : Alone /\ SearchUsers(1, u, q)
  \/ SearchUsersStatus(1)
  \/ \E u \in ExistingUsers : Alone /\ GetMe(u)

SpecFriends == Init /\ [][NextFriends]_vars

\* the friend-request handlers of registered users interleaved, and saves
\* that the database rejects: requests of one user about another that would
\* pass the checks where they start
NextConcurrent ==
  \/ RegisterNext
  \/ \E h \in Handlers, op \in FriendOps, u \in ExistingUsers, t \in ExistingUsers,
        first \in Roles :
       /\ Free(h)
       /\ u # t
       /\ Rejection(op, users[u], users[t], t) = ""
       /\ started < MaxRequests
       /\ BeginRequest(h, op, u, t, first)
  \/ \E h \in Handlers : ReadSecond(h)
  \/ \E h \in Handlers, rejected \in BOOLEAN : SaveCurrent(h, rejected)
  \/ \E h \in Handlers, rejected \in BOOLEAN : SaveOther(h, rejected)

SpecConcurrent == Init /\ [][NextConcurrent]_vars

(***************************************************************************)
(* The notes routes.                                                       *)
(***************************************************************************)
CanCreateNote == noteSeq < MaxNotes
CanCreateSharedNote == noteSeq < MaxSharedNotes

\* the images a request body can carry for a note whose stored images are
\* existing: none, the stored ones, or one or two new images as data: URLs
ImageInputs(existing) ==
  {<<>>, [i \in DOMAIN existing |->
            [id |-> existing[i].id, data |-> FALSE, publicId |-> existing[i].publicId]]}
    \cup (IF cloudSeq < MaxUploads
          THEN {<<[id |-> cloudSeq + 1, data |-> TRUE, publicId |-> 0]>>}
          ELSE {})
    \cup (IF cloudSeq + 1 < MaxUploads
          THEN {<<[id |-> cloudSeq + 1, data |-> TRUE, publicId |-> 0],
                  [id |-> cloudSeq + 2, data |-> TRUE, publicId |-> 0]>>}
          ELSE {})

\* a body with one image that is no data: URL and has no publicId
WithoutPublicId == <<[id |-> cloudSeq + 1, data |-> FALSE, publicId |-> 0]>>

Flags == {"true", "false", "undefined"}

\* the owner's routes on one note, the requests served one at a time: get,
\* update, delete, restore, visibility, the emptying of a trash that holds a
\* note, and the two upload routes
NextOwner ==
  \/ RegisterNext
  \/ \E u \in ExistingUsers, imgs \in ImageInputs(<<>>) \cup {WithoutPublicId} :
       Alone /\ CanCreateNote /\ CreateNote(1, u, "t", u, imgs, FALSE)
  \/ \E u \in ExistingUsers, given \in BOOLEAN :
       Alone /\ (given => cloudSeq < MaxUploads) /\ UploadImage(u, given)
  \/ \E u \in ExistingUsers, given \in BOOLEAN :
       Alone /\ (given => cloudSeq < MaxUploads) /\ UploadFile(u, given)
  \/ CreateNoteUpload(1)
  \/ CreateNoteSave(1)
  \/ \E u \in ExistingUsers, id \in NoteIds :
       \E imgs \in ImageInputs(IF id \in DOMAIN notes THEN notes[id].images ELSE <<>>)
                     \cup {WithoutPublicId} :
         /\ Alone
         /\ UpdateNote(1, u, id, [title |-> "", content |-> u, images |-> imgs,
                                  isPinned |-> "undefined", isArchived |-> "undefined"])
  \/ UpdateNoteUpload(1)
  \/ UpdateNoteDeleteFile(1)
  \/ UpdateNoteSave(1)
  \/ \E u \in ExistingUsers, id \in NoteIds, permanent \in BOOLEAN :
       Alone /\ DeleteNote(1, u, id, permanent)
  \/ DeleteNoteFile(1)
  \/ DeleteNoteSave(1)
  \/ \E u \in ExistingUsers, id \in NoteIds : Alone /\ RestoreNote(1, u, id)
  \/ RestoreNoteSave(1)
  \/ \E u \in ExistingUsers, id \in NoteIds : Alone /\ SetVisibility(1, u, id, FALSE)
  \/ SetVisibilitySave(1)
  \/ \E u \in ExistingUsers : Alone /\ TrashOf(u) # {} /\ EmptyTrash(1, u)
  \/ EmptyTrashFile(1)
  \/ EmptyTrashSave(1)
  \/ \E u \in ExistingUsers, id \in NoteIds : Alone /\ GetNote(u, id)

SpecOwner == Init /\ [][NextOwner]_vars

\* the trash and the archive, the requests served one at a time: the three
\* listings, soft delete and restore
NextTrash ==
  \/ RegisterNext
  \/ \E u \in ExistingUsers, pinned \in BOOLEAN :
       Alone /\ CanCreateNote /\ CreateNote(1, u, "t", u, <<>>, pinned)
  \/ \E u \in ExistingUsers, id \in NoteIds, a \in Flags :
       /\ Alone /\ FindOwned(id, u)
       /\ UpdateNote(1, u, id, [title |-> "t", content |-> u, images |-> <<>>,
                                isPinned |-> "undefined", isArchived |-> a])
  \/ UpdateNoteSave(1)
  \/ \E u \in ExistingUsers, id \in NoteIds, permanent \in BOOLEAN :
       Alone /\ FindOwned(id, u) /\ DeleteNote(1, u, id, permanent)
  \/ DeleteNoteSave(1)
  \/ \E u \in ExistingUsers, id \in NoteIds : Alone /\ RestoreNote(1, u, id)
  \/ RestoreNoteSave(1)
  \/ \E u \in ExistingUsers : Alone /\ EmptyTrash(1, u)
  \/ EmptyTrashSave(1)
  \/ \E u \in ExistingUsers, a \in {"true", "false"}, d \in {"true", "false"} :
       Alone /\ ListNotes(u, a, d)

SpecTrash == Init /\ [][NextTrash]_vars

\* likes on public and private notes, with like requests that overlap
NextLikes ==
  \/ RegisterNext
  \/ \E u \in ExistingUsers : Alone /\ CanCreateNote /\ CreateNote(1, u, "t", u, <<>>, FALSE)
  \/ \E u \in ExistingUsers, id \in NoteIds, b \in BOOLEAN :
       Alone /\ SetVisibility(1, u, id, b)
  \/ SetVisibilitySave(1)
  \/ \E h \in Handlers, u \in ExistingUsers, id \in NoteIds :
       /\ Free(h)
       /\ \A g \in Handlers : running[g].op \in {"none", "like"}
       /\ LikeNote(h, u, id)
  \/ \E h \in Handlers : LikeNoteSave(h)

SpecLikes == Init /\ [][NextLikes]_vars

\* a friend request of u to t that goes through, t having sent none to u
CanSend(u, t) ==
  /\ t \in ExistingUsers /\ t # u
  /\ ~Some(users[u].friends, t)
  /\ ~Some(users[u].sentFriendRequests, t)
  /\ ~Some(users[u].friendRequests, t)

\* the friend requests that prepare sharing: those that go through
FriendshipNext ==
  \/ \E u \in ExistingUsers, t \in UserIds :
       Alone /\ CanSend(u, t) /\ SendFriendRequest(1, u, t, "cur")
  \/ \E u \in ExistingUsers, t \in UserIds :
       /\ Alone /\ t \in ExistingUsers /\ Some(users[u].friendRequests, t)
       /\ AcceptFriendRequest(1, u, t, "cur")
  \/ \E u \in ExistingUsers, t \in UserIds :
       /\ Alone /\ t \in ExistingUsers /\ Some(users[u].friends, t)
       /\ RemoveFriend(1, u, t, "cur")
  \/ ReadSecond(1)
  \/ SaveCurrent(1, FALSE)
  \/ SaveOther(1, FALSE)

\* the listing of a user's notes, the requests served one at a time: friends,
\* profile privacy, and a note its owner archives, deletes, restores and
\* hides.  Of the requests that only prepare the state (friend requests,
\* profile, the owner's changes to the note) those that are rejected are left
\* out: they change nothing but the response.
NextShare ==
  \/ RegisterNext
  \/ FriendshipNext
  \/ \E u \in ExistingUsers : Alone /\ UpdateProfile(1, u, TRUE, ~users[u].isPrivate)
  \/ UpdateProfileSave(1)
  \/ \E u \in ExistingUsers :
       Alone /\ CanCreateNote /\ CreateNote(1, u, "t", u, <<>>, FALSE)
  \/ \E u \in ExistingUsers, id \in NoteIds, a \in {"true", "false"} :
       /\ Alone /\ FindOwned(id, u)
       /\ UpdateNote(1, u, id, [title |-> "t", content |-> u, images |-> <<>>,
                                isPinned |-> "undefined", isArchived |-> a])
  \/ UpdateNoteSave(1)
  \/ \E u \in ExistingUsers, id \in NoteIds :
       Alone /\ FindOwned(id, u) /\ ~notes[id].isDeleted /\ DeleteNote(1, u, id, FALSE)
  \/ DeleteNoteSave(1)
  \/ \E u \in ExistingUsers, id \in NoteIds :
       Alone /\ FindOwned(id, u) /\ SetVisibility(1, u, id, ~notes[id].isPublic)
  \/ SetVisibilitySave(1)
  \/ \E u \in ExistingUsers, t \in UserIds, first \in Roles :
       Alone /\ ListUserNotes(1, u, t, first)
  \/ ListUserNotesSecond(1)
  \/ ListUserNotesFind(1)

SpecShare == Init /\ [][NextShare]_vars

\* copies, the requests served one at a time: friends, a note whose owner
\* writes it and hides it, and its duplication
NextCopy ==
  \/ RegisterNext
  \/ FriendshipNext
  \/ \E u \in ExistingUsers :
       Alone /\ CanCreateSharedNote /\ CreateNote(1, u, "t", 0, <<>>, FALSE)
  \/ \E u \in ExistingUsers, id \in SharedNoteIds :
       /\ Alone /\ FindOwned(id, u)
       /\ UpdateNote(1, u, id, [title |-> "t", content |-> u, images |-> <<>>,
                                isPinned |-> "undefined", isArchived |-> "undefined"])
  \/ UpdateNoteSave(1)
  \/ \E u \in ExistingUsers, id \in SharedNoteIds :
       Alone /\ FindOwned(id, u) /\ SetVisibility(1, u, id, ~notes[id].isPublic)
  \/ SetVisibilitySave(1)
  \/ \E u \in ExistingUsers, id \in SharedNoteIds :
       Alone /\ CanCreateSharedNote /\ DuplicateNote(1, u, id)
  \/ DuplicateNoteOwner(1)
  \/ DuplicateNoteUser(1)
  \/ DuplicateNoteSave(1)

SpecCopy == Init /\ [][NextCopy]_vars

(***************************************************************************)
(* Properties of the friend-request lifecycle, the requests served one at  *)
(* a time (SpecFriends).  A request is answered in the last step of its    *)
(* handler, and the state between two requests is one in which no handler  *)
(* is in progress; what a request found when it started is what its        *)
(* handler read.                                                           *)
(***************************************************************************)
\* the handler that serves the requests one at a time
Serving == running[1]

\* the document of w as the request in progress found it
Before(w) ==
  IF Serving.pc = "save" /\ w = Serving.u THEN Serving.cur
  ELSE IF Serving.pc = "save" /\ w = Serving.t THEN Serving.oth
  ELSE users[w]

\* the three relationship lists of a document
Lists(user) == <<user.friends, user.friendRequests, user.sentFriendRequests>>

\* the lists of every user other than u and t are as the step found them
OthersKept(u, t) ==
  \A w \in ExistingUsers \ {u, t} : Lists(users'[w]) = Lists(users[w])

\* the lists of every user are as the request found them
AllKept ==
  /\ DOMAIN users' = DOMAIN users
  /\ \A w \in ExistingUsers : Lists(users'[w]) = Lists(Before(w))

\* C1: with the requests served one at a time, between two requests user b is
\* in a.friends if and only if a is in b.friends.
FriendshipSymmetric ==
  Alone =>
    \A a \in ExistingUsers, b \in ExistingUsers :
      Some(users[a].friends, b) <=> Some(users[b].friends, a)

\* a request was accepted and the two users are friends
FriendshipWitness ==
  /\ Alone
  /\ resp.op = "accept" /\ resp.status = 200
  /\ Some(users[resp.user].friends, resp.arg)
  /\ Some(users[resp.arg].friends, resp.user)

\* the answer to a send request, and what the request has changed
SendStep ==
  resp'.op = "send" =>
    LET u == resp'.user
        t == resp'.arg
    IN
    IF t = u \/ (u \in ExistingUsers /\ t \in ExistingUsers
                   /\ (Some(Before(u).friends, t)
                         \/ Some(Before(u).sentFriendRequests, t)))
    THEN resp'.status = 400 /\ AllKept /\ users' = users /\ notes' = notes
    ELSE IF u \notin ExistingUsers \/ t \notin ExistingUsers
    THEN resp'.status = 404 /\ AllKept /\ users' = users /\ notes' = notes
    ELSE /\ resp'.status = 200
         /\ notes' = notes
         /\ DOMAIN users' = DOMAIN users
         /\ users'[u] = [Before(u) EXCEPT !.sentFriendRequests = Append(@, t)]
         /\ users'[t] = [Before(t) EXCEPT !.friendRequests = Append(@, u)]
         /\ \A w \in ExistingUsers \ {u, t} : users'[w] = users[w]

\* C10: a friend request to oneself, to a friend or to a user already asked is
\* answered 400 and one naming a missing user 404, both changing no list;
\* otherwise the request appends the target to the sender's sentFriendRequests
\* and the sender to the target's friendRequests and changes nothing else.
SendRequestContract ==
  [][ /\ SendStep
      /\ (Serving.op = "send" /\ resp'.op = "none") => OthersKept(Serving.u, Serving.t) ]_vars

\* a second request to the same user was answered 400 with the first still pending
SendRequestWitness ==
  /\ resp.op = "send" /\ resp.status = 400
  /\ resp.error = "Friend request already sent"
  /\ Some(users[resp.user].sentFriendRequests, resp.arg)
  /\ Some(users[resp.arg].friendRequests, resp.user)

\* the step that makes b a friend of a, or puts b in a.friendRequests, and the
\* answer to an accept
FriendshipStep ==
  /\ \A a \in ExistingUsers, b \in ExistingUsers :
       /\ (Some(users'[a].friends, b) /\ ~Some(users[a].friends, b))
            => /\ Serving.op = "accept" /\ Serving.pc = "save"
               /\ {Serving.u, Serving.t} = {a, b}
               /\ Some(Serving.cur.friendRequests, Serving.t)
               /\ Some(Serving.oth.sentFriendRequests, Serving.u)
       /\ (Some(users'[a].friendRequests, b) /\ ~Some(users[a].friendRequests, b))
            => /\ Serving.op = "send" /\ Serving.pc = "save"
               /\ Serving.u = b /\ Serving.t = a
  /\ (resp'.op = "accept" /\ resp'.user \in ExistingUsers /\ resp'.arg \in ExistingUsers)
       => LET u == resp'.user
              t == resp'.arg
          IN
          IF ~Some(Before(u).friendRequests, t)
          THEN /\ resp'.status = 400
               /\ resp'.error = "No friend request from this user"
               /\ users' = users
          ELSE /\ resp'.status = 200
               /\ users'[u].friendRequests = Filter(Before(u).friendRequests, t)
               /\ users'[t].sentFriendRequests = Filter(Before(t).sentFriendRequests, u)
               /\ users'[u].friends = Append(Before(u).friends, t)
               /\ users'[t].friends = Append(Before(t).friends, u)
               /\ users'[u].sentFriendRequests = Before(u).sentFriendRequests
               /\ users'[t].friendRequests = Before(t).friendRequests
               /\ \A w \in ExistingUsers \ {u, t} : users'[w] = users[w]

\* C11: b enters a.friends only in an accept by one of the two on a request the
\* other sent (a user enters friendRequests only in that user's own send) and
\* that was pending when the accept started; an accept with no such request
\* answers 400 'No friend request from this user' and changes no list; a
\* successful accept removes the request from both users' lists and adds each
\* to the other's friends.
FriendshipByAcceptOnly == [][FriendshipStep]_vars

\* an accept made two users friends and their request is no longer pending
FriendshipByAcceptWitness ==
  /\ resp.op = "accept" /\ resp.status = 200
  /\ Some(users[resp.user].friends, resp.arg)
  /\ ~Some(users[resp.user].friendRequests, resp.arg)
  /\ ~Some(users[resp.arg].sentFriendRequests, resp.user)

\* b is in a.sentFriendRequests if and only if a is in b.friendRequests
RequestsPaired ==
  \A a \in ExistingUsers, b \in ExistingUsers :
    Some(users[a].sentFriendRequests, b) <=> Some(users[b].friendRequests, a)

\* what accept, decline and remove-friend have done to the request lists when
\* they answer
RequestListsStep ==
  LET u == resp'.user
      t == resp'.arg
  IN
  /\ (resp'.op \in {"accept", "decline"} /\ resp'.status = 200)
       => /\ ~Some(users'[u].friendRequests, t)
          /\ ~Some(users'[t].sentFriendRequests, u)
          /\ \A w \in ExistingUsers :
               /\ users'[w].friendRequests =
                    (IF w = u THEN Filter(Before(w).friendRequests, t)
                     ELSE Before(w).friendRequests)
               /\ users'[w].sentFriendRequests =
                    (IF w = t THEN Filter(Before(w).sentFriendRequests, u)
                     ELSE Before(w).sentFriendRequests)
  /\ resp'.op = "remove"
       => \A w \in ExistingUsers :
            /\ users'[w].friendRequests = Before(w).friendRequests
            /\ users'[w].sentFriendRequests = Before(w).sentFriendRequests
  /\ Serving.op = "remove"
       => \A w \in ExistingUsers :
            /\ users'[w].friendRequests = users[w].friendRequests
            /\ users'[w].sentFriendRequests = users[w].sentFriendRequests

\* C13: with the requests served one at a time, between two requests b is in
\* a.sentFriendRequests if and only if a is in b.friendRequests; an accept or
\* a decline that succeeds has removed both halves of the pair, and
\* remove-friend leaves the request lists of every user as they were.
PendingPaired == [](Alone => RequestsPaired) /\ [][RequestListsStep]_vars

\* a friend was removed while a request between the two users stayed pending
PendingPairedWitness ==
  /\ resp.op = "remove" /\ resp.status = 200
  /\ \/ /\ Some(users[resp.user].friendRequests, resp.arg)
        /\ Some(users[resp.arg].sentFriendRequests, resp.user)
     \/ /\ Some(users[resp.arg].friendRequests, resp.user)
        /\ Some(users[resp.user].sentFriendRequests, resp.arg)

\* C14: between two requests no user id occurs twice in a friends list and no
\* list contains its owner, so the friendsCount that GET /me reports is the
\* number of distinct friends.
FriendsListsDistinct ==
  /\ Alone =>
       \A u \in ExistingUsers :
         /\ Len(users[u].friends) = Cardinality(Members(users[u].friends))
         /\ ~Some(users[u].friends, u)
  /\ (resp.op = "me" /\ resp.status = 200)
       => resp.count = Cardinality(Members(users[resp.user].friends))

\* C15: between two requests a user in a.friends is in neither
\* a.friendRequests nor a.sentFriendRequests, so the search never reports
\* isFriend together with isPending or hasRequest.
FriendPendingExclusive ==
  /\ Alone =>
       \A a \in ExistingUsers, b \in ExistingUsers :
         Some(users[a].friends, b) =>
           /\ ~Some(users[a].friendRequests, b)
           /\ ~Some(users[a].sentFriendRequests, b)
  /\ resp.op = "search"
       => \A r \in resp.statuses : r.isFriend => (~r.isPending /\ ~r.hasRequest)

\* C12: when friend-request handlers interleave between their reads and their
\* saves, or only one of a handler's two saves takes effect, then once the
\* handlers have finished b is in a.friends if and only if a is in b.friends,
\* and b is in a.sentFriendRequests if and only if a is in b.friendRequests.
ConcurrentFriendshipSymmetric ==
  Alone =>
    /\ \A a \in ExistingUsers, b \in ExistingUsers :
         Some(users[a].friends, b) <=> Some(users[b].friends, a)
    /\ RequestsPaired

(***************************************************************************)
(* Properties of the authentication routes, with requests that overlap     *)
(* (SpecAuth).  A step that answers without changing running is the first  *)
(* step of a handler answering at once; the other answers are given by the *)
(* save of a handler in progress.                                          *)
(***************************************************************************)
StoredEmails == {users[i].email : i \in ExistingUsers}

EmailsDistinct ==
  \A i \in ExistingUsers, j \in ExistingUsers :
    i # j => toLowerCase(users[i].email) # toLowerCase(users[j].email)

\* a register request with every field present and a long enough password
RegisterBodyValid(r) ==
  /\ r.email # "" /\ r.password # "" /\ r.name # ""
  /\ PasswordLength(r.password) >= MinPasswordLength

\* the step is the save of handler h, serving a request of route op
Saving(h, op) ==
  running[h].op = op /\ running[h].pc = "save" /\ running'[h].pc = "idle"

\* a register request is answered at once with 400 if its e-mail is stored, and
\* goes on to its save only if the e-mail is not stored when it is looked up;
\* the save inserts the user, or answers 500 and inserts nothing if the e-mail
\* has been stored meanwhile
RegisterSteps ==
  /\ (resp'.op = "register" /\ running' = running
        /\ toLowerCase(resp'.email) \in StoredEmails)
       => /\ resp'.status = 400
          /\ users' = users
          /\ RegisterBodyValid(resp') => resp'.error = "Email already registered"
  /\ \A h \in Handlers :
       /\ (running[h].pc = "idle" /\ running'[h].op = "register")
            => toLowerCase(running'[h].body.email) \notin StoredEmails
       /\ Saving(h, "register")
            => IF running[h].cur.email \in StoredEmails
               THEN /\ resp'.status = 500 /\ resp'.error = "Failed to register"
                    /\ users' = users
               ELSE /\ resp'.status = 201
                    /\ Len(users') = Len(users) + 1
                    /\ users'[Len(users')].email = running[h].cur.email
                    /\ \A i \in ExistingUsers : users'[i] = users[i]

\* a Google sign-in that finds its e-mail stored updates that user and inserts
\* none; one that does not inserts the user, or answers 500 and inserts
\* nothing if the e-mail has been stored meanwhile
GoogleSteps ==
  \A h \in Handlers :
    LET r == running[h]
        lower == toLowerCase(r.body.email)
    IN
    /\ (r.op = "google" /\ r.pc = "find" /\ running'[h].pc = "save")
         => IF lower \in StoredEmails
            THEN /\ running'[h].t \in ExistingUsers
                 /\ users[running'[h].t].email = lower
            ELSE running'[h].t = 0
    /\ Saving(h, "google")
         => IF r.t # 0
            THEN /\ resp'.status = 200 /\ resp'.arg = r.t
                 /\ Len(users') = Len(users)
                 /\ users'[r.t].email = lower
            ELSE IF lower \in StoredEmails
            THEN /\ resp'.status = 500 /\ users' = users
            ELSE /\ resp'.status = 200
                 /\ Len(users') = Len(users) + 1
                 /\ users'[Len(users')].email = lower
                 /\ \A i \in ExistingUsers : users'[i] = users[i]

\* C2 (as amended): no two users have the same lower-cased e-mail; a register
\* request whose lower-cased e-mail is stored when the handler looks it up gets
\* 400 and creates no user, with the error 'Email already registered' when its
\* body passes the field checks; a Google sign-in that finds its e-mail stored
\* reuses that user; and a registration or a first Google sign-in whose e-mail
\* another request stores between its lookup and its save is answered 500 and
\* creates no user.
EmailUnique ==
  /\ []EmailsDistinct
  /\ [][RegisterSteps /\ GoogleSteps]_vars

\* C2 as stated: every register request whose lower-cased e-mail is stored is
\* answered 400 'Email already registered' and creates no user.
EmailUniqueAsStated ==
  [][ (resp'.op = "register" /\ toLowerCase(resp'.email) \in StoredEmails)
        => /\ resp'.status = 400
           /\ resp'.error = "Email already registered"
           /\ users' = users ]_vars

\* a register request for the upper-case spelling of a stored e-mail was rejected
EmailUniqueWitness ==
  /\ resp.op = "register" /\ resp.email = "A@x"
  /\ resp.error = "Email already registered"
  /\ "a@x" \in StoredEmails

\* a refresh answers 200 only for a refresh token that is the stored one when
\* it answers, and stores a new one; a refresh with a token that is not the
\* stored one is answered 401; a logout leaves no token stored, and where none
\* is stored only a login, a Google sign-in or a registration stores one
RotationSteps ==
  LET t == resp'.token
  IN
  /\ (resp'.op = "refresh" /\ resp'.status = 200)
       => /\ t.type = "refresh"
          /\ t.uid \in ExistingUsers
          /\ users[t.uid].refreshToken = t
          /\ users'[t.uid].refreshToken # t
          /\ users'[t.uid].refreshToken = generateRefreshToken(t.uid, resp'.count)
  /\ (resp'.op = "refresh" /\ running' = running /\ t # NoToken
        /\ (t.uid \notin ExistingUsers \/ users[t.uid].refreshToken # t))
       => resp'.status = 401 /\ users' = users
  /\ (resp'.op = "logout" /\ resp'.user \in ExistingUsers)
       => users'[resp'.user].refreshToken = NoToken
  /\ \A u \in ExistingUsers :
       (users[u].refreshToken = NoToken /\ users'[u].refreshToken # NoToken)
         => resp'.op \in {"login", "google"}

\* C9: a refresh succeeds only for a valid refresh token equal to the one
\* stored on its user, and replaces the stored token by a newly issued one; a
\* token that is not the stored one (a previous one, or any after logout) gets
\* 401; logout clears the stored token, and after it no refresh succeeds until
\* the next login.
RefreshRotation == [][RotationSteps]_vars

(***************************************************************************)
(* Properties of the notes routes.  Where the requests are served one at a *)
(* time a request is answered by the last step of its handler, and no      *)
(* other request changes a document between its steps.                     *)
(***************************************************************************)
\* the notes of t that are neither deleted nor archived
LiveNotesOf(t) ==
  {i \in DOMAIN notes : notes[i].userId = t /\ ~notes[i].isDeleted /\ ~notes[i].isArchived}

\* C3: GET /user/:userId of another existing user answers 403 'Not authorized to
\* view notes' unless the target is in the requester's friends, else 403 'User
\* profile is private' if the target is private, else exactly the target's public,
\* non-deleted, non-archived notes; for oneself it returns all one's non-deleted,
\* non-archived notes whatever their isPublic.
UserNotesVisibility ==
  (resp.op = "usernotes" /\ resp.user \in ExistingUsers /\ resp.arg \in ExistingUsers) =>
    LET u == resp.user
        t == resp.arg
    IN
    IF u = t
    THEN resp.status = 200 /\ resp.ids = LiveNotesOf(t)
    ELSE IF ~Some(users[u].friends, t)
    THEN /\ resp.status = 403 /\ resp.error = "Not authorized to view notes"
         /\ resp.ids = {}
    ELSE IF users[t].isPrivate
    THEN /\ resp.status = 403 /\ resp.error = "User profile is private"
         /\ resp.ids = {}
    ELSE /\ resp.status = 200
         /\ resp.ids = {i \in LiveNotesOf(t) : notes[i].isPublic}

\* a friend was answered the listing of the target while the target's private
\* note was held back
UserNotesVisibilityWitness ==
  /\ resp.op = "usernotes" /\ resp.status = 200 /\ resp.user # resp.arg
  /\ Some(users[resp.user].friends, resp.arg)
  /\ \E i \in LiveNotesOf(resp.arg) : ~notes[i].isPublic /\ i \notin resp.ids

\* user v can get the content of note i in a response: as its owner (GET /,
\* GET /:id), in the listing of the owner's notes (GET /user/:userId), or in the
\* copy that POST /:id/duplicate answers with
Readable(v, i) ==
  LET owner == notes[i].userId
  IN
  \/ owner = v
  \/ /\ Some(users[v].friends, owner)
     /\ ~users[owner].isPrivate
     /\ UserNotesFilter(notes[i], owner, FALSE)
  \/ notes[i].isPublic \/ Some(users[v].friends, owner)

\* C4: a text its author has only ever kept in private notes is readable by
\* nobody but the author and the users who have the author in their friends,
\* and no public note of another owner carries it.
PrivateContentConfidential ==
  \A i \in DOMAIN notes :
    (notes[i].content # 0 /\ notes[i].content \notin published) =>
      /\ notes[i].isPublic => notes[i].userId = notes[i].content
      /\ \A v \in ExistingUsers :
           Readable(v, i) =>
             v = notes[i].content \/ Some(users[v].friends, notes[i].content)

\* the fields of a note only its owner may change
OwnerFields(note) ==
  <<note.title, note.content, note.images, note.isPinned, note.isArchived,
    note.isDeleted, note.deletedAt, note.isPublic>>

\* the publicIds of the images of the notes of u
ImagesOf(u) ==
  UNION {{notes[i].images[k].publicId : k \in DOMAIN notes[i].images} :
           i \in {j \in DOMAIN notes : notes[j].userId = u}}

\* C5: get, update, delete, restore and visibility of a note that does not exist
\* or is another user's answer 404 and change no note and no stored image; a
\* note's title, content, images, flags and isPublic change, a note
\* disappears, and an image of a note is removed from the store, only in a
\* request of its owner.
OwnerScoping ==
  [][ /\ (resp'.op \in {"get", "update", "delete", "restore", "visibility"}
            /\ ~FindOwned(resp'.arg, resp'.user))
           => /\ resp'.status = 404
              /\ running' = running
              /\ notes' = notes
              /\ cloud' = cloud
              /\ noteSeq' = noteSeq /\ cloudSeq' = cloudSeq
      /\ \A i \in DOMAIN notes :
           (i \notin DOMAIN notes' \/ OwnerFields(notes'[i]) # OwnerFields(notes[i]))
             => resp'.user = notes[i].userId
      /\ \A p \in cloud \ cloud' : p \in ImagesOf(running[1].u) ]_vars

\* another user's request to make a note private was answered 404 and the note
\* is still public
OwnerScopingWitness ==
  /\ resp.op = "visibility" /\ resp.status = 404
  /\ resp.arg \in DOMAIN notes
  /\ notes[resp.arg].userId # resp.user
  /\ notes[resp.arg].isPublic

\* the listing a note is in
ListingOf(note) ==
  IF note.isDeleted THEN "trash" ELSE IF note.isArchived THEN "archive" ELSE "active"

\* C6: GET / returns notes of the requester only: with deleted=true exactly the
\* deleted ones, else with archived=true exactly those archived and not deleted,
\* else exactly those neither deleted nor archived; so every note of a user is in
\* exactly one of the three listings, an archived and deleted one in the trash.
ListingsPartition ==
  /\ \A u \in ExistingUsers :
       /\ \A a \in {"true", "false"} :
            FindNotes(u, a, "true") =
              {i \in DOMAIN notes : notes[i].userId = u /\ ListingOf(notes[i]) = "trash"}
       /\ FindNotes(u, "true", "false") =
            {i \in DOMAIN notes : notes[i].userId = u /\ ListingOf(notes[i]) = "archive"}
       /\ FindNotes(u, "false", "false") =
            {i \in DOMAIN notes : notes[i].userId = u /\ ListingOf(notes[i]) = "active"}
       /\ \A i \in DOMAIN notes :
            notes[i].userId = u =>
              Cardinality({l \in {<<"false", "true">>, <<"true", "false">>, <<"false", "false">>} :
                             i \in FindNotes(u, l[1], l[2])}) = 1
  /\ \A i \in DOMAIN notes :
       (notes[i].isArchived /\ notes[i].isDeleted) =>
         /\ i \in FindNotes(notes[i].userId, "false", "true")
         /\ i \notin FindNotes(notes[i].userId, "true", "false")
         /\ i \notin FindNotes(notes[i].userId, "false", "false")
  /\ resp.op = "list" =>
       resp.ids = {i \in DOMAIN notes :
                     /\ notes[i].userId = resp.user
                     /\ ListingOf(notes[i]) =
                          (IF resp.deleted = "true" THEN "trash"
                           ELSE IF resp.archived = "true" THEN "archive" ELSE "active")}

\* the archive listing was asked for while the user's archived note is in the trash
ListingsPartitionWitness ==
  /\ resp.op = "list" /\ resp.archived = "true" /\ resp.deleted = "false"
  /\ resp.ids = {}
  /\ \E i \in DOMAIN notes :
       notes[i].userId = resp.user /\ notes[i].isArchived /\ notes[i].isDeleted

\* the fields of a note other than isDeleted and deletedAt
FieldsBesideTrash(note) ==
  <<note.userId, note.title, note.content, note.images, note.isPinned,
    note.isArchived, note.isPublic, note.likes>>

\* the steps of soft delete and restore
TrashSteps ==
  LET u == resp'.user
      id == resp'.arg
  IN
  /\ (resp'.op = "delete" /\ ~resp'.flag /\ FindOwned(id, u))
       => /\ resp'.status = 200
          /\ notes' = [notes EXCEPT ![id].isDeleted = TRUE, ![id].deletedAt = 1]
  /\ resp'.op = "restore"
       => IF FindOwned(id, u) /\ notes[id].isDeleted
          THEN /\ resp'.status = 200
               /\ notes' = [notes EXCEPT ![id].isDeleted = FALSE, ![id].deletedAt = 0]
          ELSE /\ resp'.status = 404 /\ resp'.error = "Note not found in trash"
               /\ notes' = notes

\* a restore right after the soft delete of the same note: the note is as it was
\* before the delete in every field beside isDeleted and deletedAt
RestoredAsBefore ==
  (resp.op = "restore" /\ resp.status = 200 /\ trashed.id = resp.arg) =>
    /\ FieldsBesideTrash(notes[resp.arg]) = FieldsBesideTrash(trashed.note)
    /\ ~notes[resp.arg].isDeleted /\ notes[resp.arg].deletedAt = 0

\* C7 (as amended): a soft delete keeps the note and sets isDeleted and
\* deletedAt; restore succeeds only on an owned note with isDeleted true, else
\* 404 'Note not found in trash' and no change, and clears both; delete then
\* restore leaves every other field as before, and the note is back in the
\* listing it was in if it was not already in the trash when it was deleted.
TrashRoundTrip ==
  /\ [][TrashSteps]_vars
  /\ [](RestoredAsBefore
          /\ ((resp.op = "restore" /\ resp.status = 200 /\ trashed.id = resp.arg
                 /\ ~trashed.note.isDeleted)
                => ListingOf(notes[resp.arg]) = ListingOf(trashed.note)))

\* C7 as stated: after delete then restore the note is in the listing it was in
TrashRoundTripAsStated ==
  /\ RestoredAsBefore
  /\ (resp.op = "restore" /\ resp.status = 200 /\ trashed.id = resp.arg)
       => ListingOf(notes[resp.arg]) = ListingOf(trashed.note)

\* an archived note was moved to the trash and restored to the archive
TrashRoundTripWitness ==
  /\ resp.op = "restore" /\ resp.status = 200 /\ trashed.id = resp.arg
  /\ trashed.note.isArchived /\ ~trashed.note.isDeleted
  /\ ListingOf(notes[resp.arg]) = "archive"

\* the answer of a like request and what its save does to the stored likes
LikeStep ==
  LET u == resp'.user
      id == resp'.arg
  IN
  /\ (resp'.op = "like" /\ resp'.status = 200)
       => LET before == Members(notes[id].likes)
              after == Members(notes'[id].likes)
          IN
          /\ notes[id].isPublic \/ notes[id].userId = u
          /\ u \in after <=> u \notin before
          /\ after \ {u} = before \ {u}
          /\ resp'.flag = (u \in after)
          /\ resp'.count = Cardinality(after)
          /\ notes' = [notes EXCEPT ![id].likes = notes'[id].likes]
  /\ (resp'.op = "like" /\ running' = running /\ id \in DOMAIN notes)
       => /\ ~notes[id].isPublic /\ notes[id].userId # u
          /\ resp'.status = 403
          /\ notes' = notes

\* C8: a like request on a note that is public or the requester's own toggles the
\* requester in likes, leaves the other likers, and answers liked and likesCount
\* of the result; two likes in a row restore the set of likers; nobody is in
\* likes twice; on another user's private note it answers 403 and changes nothing.
LikeIsToggle ==
  /\ [][LikeStep]_vars
  /\ [](\A i \in DOMAIN notes :
          /\ Len(notes[i].likes) = Cardinality(Members(notes[i].likes))
          /\ \A u \in ExistingUsers :
               Members(ToggleLike(ToggleLike(notes[i].likes, u), u))
                 = Members(notes[i].likes))

====
